---- MODULE Spec2Model ----
(***************************************************************************)
(* Technical-indicator library and market-data handlers of the journal     *)
(* site's Netlify functions.                                                *)
(*                                                                         *)
(* JavaScript numbers are modelled as exact rationals (plus NaN), so that   *)
(* the recurrences of the indicators are computed as the code writes them   *)
(* and the results can be compared exactly.  A rational is a sign, a        *)
(* multi-limb magnitude and a denominator given by the exponents of the     *)
(* small primes that the divisors of the code are made of.  Rounding is     *)
(* that of the exact value: the error of floating point is left out.        *)
(***************************************************************************)
EXTENDS Integers, Sequences, FiniteSets, TLC

----------------------------------------------------------------------------
(* Natural numbers of any size: little-endian sequences of limbs.          *)

\* TRUE; makes TLC evaluate x here, once, rather than at its uses
Eval(x) == x = x

RECURSIVE Call(_, _)
\* Call(f, a) is the function named f applied to the arguments a.  The
\* functions that many others use are applied through it: f(x) is written
\* for Call("f", <<x>>) and f_body(x) is what it computes.

Base == 10^7

Max(a, b) == IF a > b THEN a ELSE b
Min(a, b) == IF a < b THEN a ELSE b

Limb(a, i) == IF i <= Len(a) THEN a[i] ELSE 0

\* (The operations on limbs are written without recursion, a carry being
\* found from the limbs below, and each starts with a test of its argument,
\* which makes TLC evaluate the argument there: both keep the evaluation
\* shallow.)

\* a without its leading zero limbs
NatTrim(a) ==
    IF a = <<>> THEN a
    ELSE IF \A j \in 1..Len(a) : a[j] = 0 THEN <<>>
    ELSE SubSeq(a, 1, CHOOSE m \in 1..Len(a) :
                        a[m] # 0 /\ \A k \in (m + 1)..Len(a) : a[k] = 0)

NatFromInt(n) ==
    IF n = 0 THEN <<>>
    ELSE IF n < Base THEN <<n>>
    ELSE <<n % Base, n \div Base>>

\* the natural with the limb values t, each below 2 * Base - 1: limb j takes
\* a carry when a limb below it overflows and all limbs between are Base - 1
NatCarry(t) ==
    IF t = <<>> THEN t
    ELSE NatTrim(SubSeq([j \in 1..(Len(t) + 1) |->
            ((IF j <= Len(t) THEN t[j] ELSE 0)
             + (IF \E g \in 1..(j - 1) :
                      /\ t[g] >= Base
                      /\ \A l \in (g + 1)..(j - 1) : t[l] = Base - 1
                THEN 1 ELSE 0)) % Base], 1, Len(t) + 1))

NatAdd(a, b) ==
    IF a = <<>> THEN b
    ELSE IF b = <<>> THEN a
    ELSE NatCarry(SubSeq([j \in 1..Max(Len(a), Len(b)) |-> Limb(a, j) + Limb(b, j)],
                         1, Max(Len(a), Len(b))))

\* the natural with the limb values t, each above -Base and below Base, the
\* whole not negative: limb j lends when a limb below it is negative and all
\* limbs between are zero
NatBorrow(t) ==
    IF t = <<>> THEN t
    ELSE NatTrim(SubSeq([j \in 1..Len(t) |->
            (t[j] + Base
             - (IF \E g \in 1..(j - 1) :
                      /\ t[g] < 0
                      /\ \A l \in (g + 1)..(j - 1) : t[l] = 0
                THEN 1 ELSE 0)) % Base], 1, Len(t)))

\* a - b, for a >= b
NatSub(a, b) ==
    IF b = <<>> THEN a
    ELSE NatBorrow(SubSeq([j \in 1..Len(a) |-> a[j] - Limb(b, j)], 1, Len(a)))

\* -1, 0 or 1 as a < b, a = b, a > b
NatCmp(a, b) ==
    IF Len(a) < Len(b) THEN -1
    ELSE IF Len(a) > Len(b) THEN 1
    ELSE IF a = b THEN 0
    ELSE LET m == CHOOSE m \in 1..Len(a) :
                     a[m] # b[m] /\ \A k \in (m + 1)..Len(a) : a[k] = b[k]
         IN  IF a[m] < b[m] THEN -1 ELSE 1

\* a * m for a small multiplier 0 <= m <= 200
NatMulS(a, m) ==
    IF m = 0 \/ a = <<>> THEN <<>>
    ELSE NatCarry(SubSeq([j \in 1..(Len(a) + 1) |->
                            (IF j <= Len(a) THEN (a[j] * m) % Base ELSE 0)
                            + (IF j > 1 THEN (a[j - 1] * m) \div Base ELSE 0)],
                         1, Len(a) + 1))

\* a * m for one limb m, by the four base-100 digits of m
NatMulLimb(a, m) ==
    LET m0 == m % 100
        m1 == (m \div 100) % 100
        m2 == (m \div 10000) % 100
        m3 == m \div 1000000
    IN  NatAdd(NatMulS(NatAdd(NatMulS(NatAdd(NatMulS(NatMulS(a, m3), 100),
                                             NatMulS(a, m2)), 100),
                              NatMulS(a, m1)), 100),
               NatMulS(a, m0))

ZeroLimbs == <<0, 0, 0, 0, 0, 0, 0, 0, 0, 0, 0, 0, 0, 0, 0, 0,
               0, 0, 0, 0, 0, 0, 0, 0, 0, 0, 0, 0, 0, 0, 0, 0>>

\* a * Base^n
NatShift(a, n) == IF a = <<>> THEN a ELSE SubSeq(ZeroLimbs, 1, n) \o a

RECURSIVE NatMulRange(_, _, _, _)
\* a * (the number made of the limbs lo..hi of b); the range is halved so
\* that the evaluation stays shallow
NatMulRange(a, b, lo, hi) ==
    IF lo = hi THEN NatMulLimb(a, b[lo])
    ELSE LET mid == (lo + hi) \div 2
         IN  NatAdd(NatMulRange(a, b, lo, mid),
                    NatShift(NatMulRange(a, b, mid + 1, hi), mid + 1 - lo))

NatMul(a, b) == Call("NatMul", <<a, b>>)
NatMul_body(a, b) ==
    IF a = <<>> \/ b = <<>> THEN <<>>
    ELSE IF b = <<1>> THEN a
    ELSE IF a = <<1>> THEN b
    ELSE NatTrim(NatMulRange(a, b, 1, Len(b)))

RECURSIVE NatPow(_, _)
\* p^n for a small p, by squaring
NatPow(p, n) ==
    IF n = 0 THEN <<1>>
    ELSE IF n = 1 THEN <<p>>
    ELSE LET h  == NatPow(p, n \div 2)
             sq == NatMul(h, h)
         IN  IF n % 2 = 0 THEN sq ELSE NatMulS(sq, p)

\* the value of a natural that fits one limb
NatToInt(a) == IF a = <<>> THEN 0 ELSE a[1]

----------------------------------------------------------------------------
(* Numbers: NaN, or (-1)^neg * mag / prod(PrimeAt[j]^den[j]).  A number is  *)
(* not kept in lowest terms, so two numbers are compared with NEq, not =.   *)

PrimeAt == <<2, 3, 5, 7, 11, 13>>
NoDen   == <<0, 0, 0, 0, 0, 0>>

NaN  == [nan |-> TRUE,  neg |-> FALSE, mag |-> <<>>, den |-> NoDen]
Zero == [nan |-> FALSE, neg |-> FALSE, mag |-> <<>>, den |-> NoDen]

MkNum(neg, mag, den) ==
    IF mag = <<>> THEN Zero
    ELSE [nan |-> FALSE, neg |-> neg, mag |-> mag, den |-> den]

Num(n) == MkNum(n < 0, NatFromInt(IF n < 0 THEN -n ELSE n), NoDen)

RECURSIVE DenNatFrom(_, _)
\* prod(PrimeAt[k]^d[k]) over k >= j
DenNatFrom(d, j) ==
    IF j > Len(PrimeAt) THEN <<1>>
    ELSE NatMul(NatPow(PrimeAt[j], d[j]), DenNatFrom(d, j + 1))

\* prod(PrimeAt[j]^d[j]) as a natural
DenNat(d) == DenNatFrom(d, 1)

\* mag * prod(PrimeAt[j]^(to[j] - from[j]))
Scale(mag, from, to) ==
    IF mag = <<>> \/ from = to THEN mag
    ELSE NatMul(mag, DenNat(<<to[1] - from[1], to[2] - from[2], to[3] - from[3],
                              to[4] - from[4], to[5] - from[5], to[6] - from[6]>>))

\* (tuples are written out: TLC evaluates them once, a function expression at
\* every application)
MaxDen(d, e) == <<Max(d[1], e[1]), Max(d[2], e[2]), Max(d[3], e[3]),
                  Max(d[4], e[4]), Max(d[5], e[5]), Max(d[6], e[6])>>
AddDen(d, e) == <<d[1] + e[1], d[2] + e[2], d[3] + e[3],
                  d[4] + e[4], d[5] + e[5], d[6] + e[6]>>

NNeg(x) == IF x.nan \/ x.mag = <<>> THEN x ELSE [x EXCEPT !.neg = ~x.neg]

NAdd(x, y) == Call("NAdd", <<x, y>>)
\* (-1)^xneg * a / d + (-1)^yneg * b / d, c being NatCmp(a, b)
NAddMags(xneg, yneg, a, b, c, d) ==
    IF xneg = yneg THEN MkNum(xneg, NatAdd(a, b), d)
    ELSE IF c = 0 THEN Zero
    ELSE IF c > 0 THEN MkNum(xneg, NatSub(a, b), d)
    ELSE MkNum(yneg, NatSub(b, a), d)

NAddScaled(xneg, yneg, a, b, d) == NAddMags(xneg, yneg, a, b, NatCmp(a, b), d)

\* x + y over the denominator d, which both denominators divide
NAddOver(x, y, d) ==
    NAddScaled(x.neg, y.neg, Scale(x.mag, x.den, d), Scale(y.mag, y.den, d), d)

NAdd_body(x, y) ==
    IF x.nan \/ y.nan THEN NaN
    ELSE NAddOver(x, y, MaxDen(x.den, y.den))

NSub(x, y) == NAdd(x, NNeg(y))

NMul(x, y) ==
    IF x.nan \/ y.nan THEN NaN
    ELSE MkNum(x.neg # y.neg, NatMul(x.mag, y.mag), AddDen(x.den, y.den))

RECURSIVE DenOfInt(_, _, _)
\* the exponents of the primes of m; m must have no other prime factor
DenOfInt(m, j, den) ==
    IF m = 1 THEN den
    ELSE IF m % PrimeAt[j] = 0
         THEN DenOfInt(m \div PrimeAt[j], j, [den EXCEPT ![j] = @ + 1])
         ELSE DenOfInt(m, j + 1, den)

\* x / m for an integer m > 0
NDivInt(x, m) ==
    IF x.nan THEN NaN
    ELSE MkNum(x.neg, x.mag, AddDen(x.den, DenOfInt(m, 1, NoDen)))

\* -1, 0, 1 as x < y, x = y, x > y (neither is NaN)
NCmp(x, y) ==
    LET d == NSub(x, y)
    IN  IF d.mag = <<>> THEN 0 ELSE IF d.neg THEN -1 ELSE 1

\* JavaScript's comparisons: every comparison with NaN is false
NLt(x, y) == ~x.nan /\ ~y.nan /\ NCmp(x, y) < 0
NGt(x, y) == NLt(y, x)
NEq(x, y) == ~x.nan /\ ~y.nan /\ NCmp(x, y) = 0
NLe(x, y) == ~x.nan /\ ~y.nan /\ NCmp(x, y) <= 0

----------------------------------------------------------------------------
(* General fractions, for quotients of two numbers: NaN, +-Infinity, or     *)
(* (-1)^neg * num / dnm with naturals num and dnm > 0 (not reduced).        *)

FNaN == [nan |-> TRUE, inf |-> FALSE, neg |-> FALSE, num |-> <<>>, dnm |-> <<1>>]
FInf(neg) == [nan |-> FALSE, inf |-> TRUE, neg |-> neg, num |-> <<1>>, dnm |-> <<1>>]
MkFrac(neg, num, dnm) ==
    [nan |-> FALSE, inf |-> FALSE, neg |-> neg /\ num # <<>>, num |-> num, dnm |-> dnm]

FromNum(x) ==
    IF x.nan THEN FNaN ELSE MkFrac(x.neg, x.mag, DenNat(x.den))
FInt(n) == FromNum(Num(n))
\* the same for 0 <= n < Base
FWhole(n) == MkFrac(FALSE, NatFromInt(n), <<1>>)

FNeg(f) == IF f.nan THEN f ELSE [f EXCEPT !.neg = ~f.neg /\ (f.inf \/ f.num # <<>>)]

FAdd(f, g) == Call("FAdd", <<f, g>>)
\* (-1)^fneg * a / d + (-1)^gneg * b / d
FAddNums(fneg, gneg, a, b, d) ==
    IF fneg = gneg THEN MkFrac(fneg, NatAdd(a, b), d)
    ELSE IF NatCmp(a, b) >= 0 THEN MkFrac(fneg, NatSub(a, b), d)
    ELSE MkFrac(gneg, NatSub(b, a), d)

FAdd_body(f, g) ==
    IF f.nan \/ g.nan \/ (f.inf /\ g.inf /\ f.neg # g.neg) THEN FNaN
    ELSE IF f.inf THEN f
    ELSE IF g.inf THEN g
    ELSE FAddNums(f.neg, g.neg, NatMul(f.num, g.dnm), NatMul(g.num, f.dnm),
                  NatMul(f.dnm, g.dnm))

FSub(f, g) == FAdd(f, FNeg(g))

FDiv(f, g) ==
    IF f.nan \/ g.nan \/ (f.inf /\ g.inf) THEN FNaN
    ELSE IF f.inf THEN FInf(f.neg # g.neg)
    ELSE IF g.inf THEN MkFrac(FALSE, <<>>, <<1>>)
    ELSE IF g.num = <<>> THEN (IF f.num = <<>> THEN FNaN ELSE FInf(f.neg # g.neg))
    ELSE MkFrac(f.neg # g.neg, NatMul(f.num, g.dnm), NatMul(f.dnm, g.num))

\* -1, 0, 1 as f < g, f = g, f > g (neither is NaN)
FCmp(f, g) ==
    LET d == FSub(f, g)
    IN  IF d.nan THEN 0
        ELSE IF d.inf THEN (IF d.neg THEN -1 ELSE 1)
        ELSE IF d.num = <<>> THEN 0 ELSE IF d.neg THEN -1 ELSE 1

FLt(f, g) == ~f.nan /\ ~g.nan /\ FCmp(f, g) < 0
FGt(f, g) == FLt(g, f)
FLe(f, g) == ~f.nan /\ ~g.nan /\ FCmp(f, g) <= 0

\* q + d * 2^shift for the greatest d in 0..31 with b * (q + d * 2^shift) <= a:
\* d is the number of the digits from 1 on for which this holds
NatQuotDigit(a, b, q, shift) ==
    q + (2^shift) * Cardinality({d \in 1..31 :
                             NatCmp(NatMul(b, NatFromInt(q + d * (2^shift))), a) <= 0})

RECURSIVE NatQuotFrom(_, _, _, _)
\* the quotient a \div b, of which q holds the digits above shift
NatQuotFrom(a, b, q, shift) ==
    IF q < 0 \/ shift < 0 THEN q
    ELSE NatQuotFrom(a, b, NatQuotDigit(a, b, q, shift), shift - 5)

\* the quotient a \div b, below 2^25, by its five digits of five bits
NatQuot(a, b) == NatQuotFrom(a, b, 0, 20)

----------------------------------------------------------------------------
(* JavaScript values other than numbers.                                    *)

Null      == [kind |-> "null"]
\* an array where the value may also be null
Arr(items) == [kind |-> "array", items |-> items]
Undefined == [kind |-> "undefined"]

\* Number.prototype.toFixed(2): the decimal string with two digits, the
\* magnitude rounded to the nearest hundredth (half up); kept as its sign and
\* its count of hundredths
FixedStr(neg, cents) == [kind |-> "string", text |-> "fixed", neg |-> neg, cents |-> cents]
NaNStr      == [kind |-> "string", text |-> "NaN", neg |-> FALSE, cents |-> 0]
InfinityStr(neg) == [kind |-> "string", text |-> "Infinity", neg |-> neg, cents |-> 0]

FracToFixed2(f) == Call("FracToFixed2", <<f>>)
FracToFixed2_body(f) ==
    IF f.nan THEN NaNStr
    ELSE IF f.inf THEN InfinityStr(f.neg)
    ELSE FixedStr(f.neg,
                  NatQuot(NatAdd(NatMulS(f.num, 200), f.dnm), NatMulS(f.dnm, 2)))

toFixed2(x) == Call("toFixed2", <<x>>)
toFixed2_body(x) == FracToFixed2(FromNum(x))

\* the number of hundredths c as a number
Cents(c) == NDivInt(Num(c), 100)

\* the value base + sign * 2 * sqrt(rad), sign 1 or -1, rad not negative:
\* Math.sqrt is kept exact, as the root of its argument
TwiceRoot(base, sign, rad) == [base |-> base, sign |-> sign, rad |-> rad]

SurdIsNaN(u) == u.base.nan \/ u.rad.nan

\* d > sign * 2 * sqrt(rad), dd being d * d and r4 being 4 * rad
GtRootOf(d, dd, r4, sign) ==
    IF sign > 0 THEN NGt(d, Zero) /\ NGt(dd, r4)
    ELSE NGt(d, Zero) \/ NLt(dd, r4)

GtRoot(d, sign, rad) == GtRootOf(d, NMul(d, d), NMul(Num(4), rad), sign)

\* d < sign * 2 * sqrt(rad)
LtRootOf(d, dd, r4, sign) ==
    IF sign > 0 THEN NLt(d, Zero) \/ NLt(dd, r4)
    ELSE NLt(d, Zero) /\ NGt(dd, r4)

LtRoot(d, sign, rad) == LtRootOf(d, NMul(d, d), NMul(Num(4), rad), sign)

\* x > u and x < u for a number x; false when either is NaN
GtSurd(x, u) == Call("GtSurd", <<x, u>>)
GtSurd_body(x, u) ==
    ~x.nan /\ ~SurdIsNaN(u) /\ GtRoot(NSub(x, u.base), u.sign, u.rad)

LtSurd(x, u) == Call("LtSurd", <<x, u>>)
LtSurd_body(x, u) ==
    ~x.nan /\ ~SurdIsNaN(u) /\ LtRoot(NSub(x, u.base), u.sign, u.rad)

\* c + d * 2^shift for the greatest d in 0..31 with c + d * 2^shift - 1/2 <=
\* hundredU
SurdCentsDigit(hundredU, c, shift) ==
    c + (2^shift) * Cardinality({d \in 1..31 :
            ~GtSurd(NDivInt(Num(2 * (c + d * (2^shift)) - 1), 2), hundredU)})

RECURSIVE SurdCentsFrom(_, _, _)
\* the greatest c with c - 1/2 <= hundredU, of which c holds the digits above
\* shift
SurdCentsFrom(hundredU, c, shift) ==
    IF c < 0 \/ shift < 0 THEN c
    ELSE SurdCentsFrom(hundredU, SurdCentsDigit(hundredU, c, shift), shift - 5)

\* the greatest c below 2^25 with c - 1/2 <= hundredU (which is not
\* negative), by its five digits of five bits
SurdCents(hundredU) == SurdCentsFrom(hundredU, 0, 20)

\* 100 * u
SurdHundred(u) ==
    TwiceRoot(NMul(Num(100), u.base), u.sign, NMul(Num(10000), u.rad))

\* the magnitude of u, which is negative where neg holds
SurdAbs(u, neg) == IF neg THEN TwiceRoot(NNeg(u.base), -u.sign, u.rad) ELSE u

SurdFixed(u, neg) == FixedStr(neg, SurdCents(SurdHundred(SurdAbs(u, neg))))

\* (base + sign * 2 * sqrt(rad)).toFixed(2)
SurdToFixed2(u) == Call("SurdToFixed2", <<u>>)
SurdToFixed2_body(u) ==
    IF SurdIsNaN(u) THEN NaNStr
    ELSE SurdFixed(u, GtSurd(Zero, u))

----------------------------------------------------------------------------
(* Arrays are sequences: JavaScript's index i is index i + 1 here.          *)

\* (a slip: the copy is not reversed)
Reverse_Same(s) == SubSeq(s, 1, Len(s))

\* Array.prototype.reverse (on a fresh copy)
Reverse(s) == SubSeq([j \in 1..Len(s) |-> s[Len(s) + 1 - j]], 1, Len(s))

\* Array.prototype.slice(0, n)
Slice0(s, n) == SubSeq(s, 1, Min(n, Len(s)))

RECURSIVE SumFrom(_, _, _, _)
\* reduce((a, b) => a + b, acc) over the elements lo..hi; the range is halved
\* so that the evaluation stays shallow
SumFrom(s, lo, hi, acc) ==
    IF lo > hi THEN acc
    ELSE IF lo = hi THEN NAdd(acc, s[lo])
    ELSE LET mid  == (lo + hi) \div 2
             left == SumFrom(s, lo, mid, acc)
         IN  IF Eval(left) THEN SumFrom(s, mid + 1, hi, left) ELSE left

Sum(s) == SumFrom(s, 1, Len(s), Zero)

----------------------------------------------------------------------------
(* The indicator functions.                                                 *)

\* (a slip: the whole array is summed, not the first period elements)
calculateSMA_SumAll(prices, period) ==
    IF Len(prices) < period THEN Null
    ELSE NDivInt(Sum(prices), period)

\* calculateSMA(prices, period)
calculateSMA(prices, period) == Call("calculateSMA", <<prices, period>>)
calculateSMA_body(prices, period) ==
    IF Len(prices) < period THEN Null
    ELSE NDivInt(Sum(Slice0(prices, period)), period)

\* calculateSma(prices, window) of the SMA-prediction functions; prices is
\* null or Arr(the elements)
calculateSma(prices, window) == Call("calculateSma", <<prices, window>>)
calculateSma_body(prices, window) ==
    IF prices = Null \/ Len(prices.items) < window THEN Null
    ELSE LET recentPrices == Slice0(prices.items, window)
             sum == Sum(recentPrices)
         IN  NDivInt(sum, window)

\* (a slip: 2 / period)
emaK_NoPlusOne(period) == NDivInt(Num(2), period)

\* const k = 2 / (period + 1)
emaK(period) == NDivInt(Num(2), period + 1)

\* (a slip: the older average is subtracted)
emaPush_Minus(emas, price, k) ==
    Append(emas, NSub(NMul(price, k), NMul(emas[Len(emas)], NSub(Num(1), k))))

\* one pass of the loop body: emas.push(prices[i] * k + emas[emas.length - 1] * (1 - k))
emaPush(emas, price, k) ==
    Append(emas, NAdd(NMul(price, k), NMul(emas[Len(emas)], NSub(Num(1), k))))

RECURSIVE emaLoop_Forward(_, _, _, _)
\* (a slip: the loop walks from index 1 up, not from length - 2 down)
emaLoop_Forward(prices, k, emas, n) ==
    IF n <= 0 THEN emas
    ELSE IF n = 1 THEN emaPush(emas, prices[Len(emas)], k)
    ELSE LET first == emaLoop_Forward(prices, k, emas, n \div 2)
         IN  IF Eval(first) THEN emaLoop_Forward(prices, k, first, n - (n \div 2))
             ELSE first

RECURSIVE emaLoop(_, _, _, _)
\* n iterations of for (let i = prices.length - 2; i >= 0; i--): emas holds
\* the values of indices prices.length - 1 down to i + 1, so
\* i = prices.length - 1 - emas.length.  The iterations are run in two halves
\* so that the evaluation stays shallow.
emaLoop(prices, k, emas, n) ==
    IF n <= 0 THEN emas
    ELSE IF n = 1 THEN emaPush(emas, prices[Len(prices) - Len(emas)], k)
    ELSE LET first == emaLoop(prices, k, emas, n \div 2)
         IN  IF Eval(first) THEN emaLoop(prices, k, first, n - (n \div 2))
             ELSE first

\* (a slip: the final reverse() is missing)
calculateEMA_NoReverse(prices, period) ==
    IF Len(prices) < period THEN <<>>
    ELSE emaLoop(prices, emaK(period), <<prices[Len(prices)]>>, Len(prices) - 1)

\* (a slip: the first average is the price at index 0)
calculateEMA_SeedNewest(prices, period) ==
    IF Len(prices) < period THEN <<>>
    ELSE Reverse(emaLoop(prices, emaK(period), <<prices[1]>>, Len(prices) - 1))

\* calculateEMA(prices, period)
calculateEMA(prices, period) == Call("calculateEMA", <<prices, period>>)
calculateEMA_body(prices, period) ==
    IF Len(prices) < period THEN <<>>
    ELSE Reverse(emaLoop(prices, emaK(period), <<prices[Len(prices)]>>, Len(prices) - 1))

\* const diff = prices[i] - prices[i + 1], i the JavaScript index
rsiDiff(prices, i) == NSub(prices[i + 1], prices[i + 2])

\* the body of the first loop at JavaScript index i: gl = <<gains, losses>>
rsiSeedStep(prices, i, gl) ==
    LET diff == rsiDiff(prices, i)
    IN  IF NGt(diff, Zero) THEN <<NAdd(gl[1], diff), gl[2]>>
        ELSE <<gl[1], NSub(gl[2], diff)>>

RECURSIVE rsiSeedLoop(_, _, _, _)
\* the first loop of calculateRSI for the JavaScript indices lo..hi, upwards;
\* the range is halved so that the evaluation stays shallow
rsiSeedLoop(prices, lo, hi, gl) ==
    IF lo > hi THEN gl
    ELSE IF lo = hi THEN rsiSeedStep(prices, lo, gl)
    ELSE LET mid   == (lo + hi) \div 2
             first == rsiSeedLoop(prices, lo, mid, gl)
         IN  IF Eval(first) THEN rsiSeedLoop(prices, mid + 1, hi, first) ELSE first

\* <<avgGain, avgLoss>> before the smoothing loop
rsiSeed(prices, period) == Call("rsiSeed", <<prices, period>>)
rsiSeed_body(prices, period) ==
    LET gl == rsiSeedLoop(prices, Len(prices) - period - 1, Len(prices) - 2,
                          <<Zero, Zero>>)
    IN  <<NDivInt(gl[1], period), NDivInt(gl[2], period)>>

\* (a slip: the loss branch adds diff, which is not positive there)
rsiSmoothStep_PlusDiff(prices, period, i, avg) ==
    LET diff == rsiDiff(prices, i)
    IN  IF NGt(diff, Zero)
        THEN <<NDivInt(NAdd(NMul(avg[1], Num(period - 1)), diff), period),
               NDivInt(NMul(avg[2], Num(period - 1)), period)>>
        ELSE <<NDivInt(NMul(avg[1], Num(period - 1)), period),
               NDivInt(NAdd(NMul(avg[2], Num(period - 1)), diff), period)>>

\* the body of the smoothing loop at JavaScript index i: avg = <<avgGain, avgLoss>>
rsiSmoothStep(prices, period, i, avg) == Call("rsiSmoothStep", <<prices, period, i, avg>>)
rsiSmoothStep_body(prices, period, i, avg) ==
    LET diff == rsiDiff(prices, i)
    IN  IF NGt(diff, Zero)
        THEN <<NDivInt(NAdd(NMul(avg[1], Num(period - 1)), diff), period),
               NDivInt(NMul(avg[2], Num(period - 1)), period)>>
        ELSE <<NDivInt(NMul(avg[1], Num(period - 1)), period),
               NDivInt(NSub(NMul(avg[2], Num(period - 1)), diff), period)>>

RECURSIVE rsiSmoothLoop(_, _, _, _, _)
\* for (let i = prices.length - period - 2; i >= 0; i--), here for the
\* JavaScript indices hi down to lo; the range is halved so that the
\* evaluation stays shallow
rsiSmoothLoop(prices, period, hi, lo, avg) ==
    IF hi < lo THEN avg
    ELSE IF hi = lo THEN rsiSmoothStep(prices, period, hi, avg)
    ELSE LET mid   == (hi + lo + 1) \div 2
             first == rsiSmoothLoop(prices, period, hi, mid, avg)
         IN  IF Eval(first) THEN rsiSmoothLoop(prices, period, mid - 1, lo, first)
             ELSE first

\* const rs = avgGain / avgLoss; const rsi = 100 - (100 / (1 + rs))
rsiValue(avgGain, avgLoss) ==
    LET rs == FDiv(FromNum(avgGain), FromNum(avgLoss))
    IN  FSub(FWhole(100), FDiv(FWhole(100), FAdd(FWhole(1), rs)))

\* (a slip: the comparisons are not strict)
rsiSignal_NotStrict(rsi) ==
    IF ~FGt(rsi, FWhole(30)) THEN "Oversold"
    ELSE IF ~FLt(rsi, FWhole(70)) THEN "Overbought"
    ELSE "Neutral"

\* let signal = 'Neutral'; if (rsi > 70) ...; if (rsi < 30) ...
rsiSignal(rsi) ==
    LET signal0 == "Neutral"
        signal1 == IF FGt(rsi, FWhole(70)) THEN "Overbought" ELSE signal0
    IN  IF FLt(rsi, FWhole(30)) THEN "Oversold" ELSE signal1

\* return { value: rsi.toFixed(2), signal }
rsiReport(rsi) == [value |-> FracToFixed2(rsi), signal |-> rsiSignal(rsi)]

\* (a slip: the test of avgLoss is missing)
rsiResult_NoZeroTest(avgGain, avgLoss) == rsiReport(rsiValue(avgGain, avgLoss))

\* the end of calculateRSI, from the test of avgLoss on
rsiResult(avgGain, avgLoss) == Call("rsiResult", <<avgGain, avgLoss>>)
rsiResult_body(avgGain, avgLoss) ==
    IF NEq(avgLoss, Zero)
    THEN [value |-> Num(100), signal |-> "Extremely Overbought"]
    ELSE rsiReport(rsiValue(avgGain, avgLoss))

\* <<avgGain, avgLoss>> after the two loops of calculateRSI, for more than
\* period prices
rsiAverages(prices, period) == Call("rsiAverages", <<prices, period>>)
rsiAverages_body(prices, period) ==
    rsiSmoothLoop(prices, period, Len(prices) - period - 2, 0, rsiSeed(prices, period))

\* calculateRSI(prices, period)
calculateRSI(prices, period) == Call("calculateRSI", <<prices, period>>)
calculateRSI_body(prices, period) ==
    IF Len(prices) <= period THEN Null
    ELSE LET avg == rsiAverages(prices, period)
         IN  rsiResult(avg[1], avg[2])

DefaultRsiPeriod == 14

\* prices.map(p => Math.pow(p - middle, 2))
SquaredDeviations(s, middle) ==
    SubSeq([j \in 1..Len(s) |-> LET d == NSub(s[j], middle) IN NMul(d, d)], 1, Len(s))

DefaultBollingerPeriod == 20

\* (a slip: the sum is not divided)
stdDevSquared_Undivided(window, middle, period) ==
    Sum(SquaredDeviations(window, middle))

\* the argument of Math.sqrt: window.map(p => Math.pow(p - middle, 2))
\* .reduce((a, b) => a + b, 0) / period
stdDevSquared(window, middle, period) ==
    NDivInt(Sum(SquaredDeviations(window, middle)), period)

\* (a slip: the comparisons are not strict)
bollingerSignal_NotStrict(price, upper, lower) ==
    IF ~GtSurd(price, lower) THEN "Below Bands (Volatile Down)"
    ELSE IF ~LtSurd(price, upper) THEN "Above Bands (Volatile Up)"
    ELSE "In Bands"

\* let signal = 'In Bands'; if (prices[0] > upper) signal = ...;
\* if (prices[0] < lower) signal = ...
bollingerSignal(price, upper, lower) ==
    LET signal0 == "In Bands"
        signal1 == IF GtSurd(price, upper)
                   THEN "Above Bands (Volatile Up)" ELSE signal0
    IN  IF LtSurd(price, lower) THEN "Below Bands (Volatile Down)" ELSE signal1

\* the constants of calculateBollingerBands for at least period prices;
\* stdDev is the root of variance
bollingerBands(prices, period) == Call("bollingerBands", <<prices, period>>)
bollingerBands_body(prices, period) ==
    LET middle   == calculateSMA(prices, period)
        variance == stdDevSquared(Slice0(prices, period), middle, period)
        upper    == TwiceRoot(middle, 1, variance)
        lower    == TwiceRoot(middle, -1, variance)
        signal   == bollingerSignal(prices[1], upper, lower)
    IN  [middle |-> middle, variance |-> variance, upper |-> upper, lower |-> lower,
         signal |-> signal]

\* return { upper: upper.toFixed(2), middle: middle.toFixed(2), lower:
\* lower.toFixed(2), signal }
bollingerResult(b) ==
    [upper |-> SurdToFixed2(b.upper), middle |-> toFixed2(b.middle),
     lower |-> SurdToFixed2(b.lower), signal |-> b.signal]

\* calculateBollingerBands(prices, period)
\* (a slip: a series of exactly period prices is refused)
calculateBollingerBands_AtMost(prices, period) ==
    IF Len(prices) <= period THEN Null
    ELSE bollingerResult(bollingerBands(prices, period))

calculateBollingerBands(prices, period) == Call("calculateBollingerBands", <<prices, period>>)
calculateBollingerBands_body(prices, period) ==
    IF Len(prices) < period THEN Null
    ELSE bollingerResult(bollingerBands(prices, period))

\* (a slip: b[i] - val)
SubEach_Swapped(a, b) == SubSeq([j \in 1..Len(a) |-> NSub(b[j], a[j])], 1, Len(a))

\* a.map((val, i) => val - b[i])
SubEach(a, b) == SubSeq([j \in 1..Len(a) |-> NSub(a[j], b[j])], 1, Len(a))

\* (a slip: the comparisons are not strict)
macdAnalysis_NotStrict(macdLine, signalLine, histogram) ==
    IF NLe(macdLine, signalLine) /\ NLe(histogram, Zero) THEN "Bearish Momentum"
    ELSE IF NLe(signalLine, macdLine) /\ NLe(Zero, histogram) THEN "Bullish Momentum"
    ELSE "Neutral"

\* let signal = 'Neutral'; if (macd > signal && histogram > 0) ...; if (macd <
\* signal && histogram < 0) ...
macdAnalysis(macdLine, signalLine, histogram) ==
    LET signal0 == "Neutral"
        signal1 == IF NGt(macdLine, signalLine) /\ NGt(histogram, Zero)
                   THEN "Bullish Momentum" ELSE signal0
    IN  IF NLt(macdLine, signalLine) /\ NLt(histogram, Zero)
        THEN "Bearish Momentum" ELSE signal1

MacdFast   == 12
MacdSlow   == 26
MacdSignal == 9

\* the constants of calculateMACD of predict-price.js for at least 26 prices
macdCurrent(prices) == Call("macdCurrent", <<prices>>)
macdCurrent_body(prices) ==
    LET ema12      == calculateEMA(prices, MacdFast)
        ema26      == calculateEMA(prices, MacdSlow)
        macdLine   == NSub(ema12[1], ema26[1])
        signalEmas == calculateEMA(SubEach(ema12, ema26), MacdSignal)
        signalLine == signalEmas[1]
        histogram  == NSub(macdLine, signalLine)
    IN  [ema12 |-> ema12, ema26 |-> ema26, macdLine |-> macdLine,
         signalEmas |-> signalEmas, signalLine |-> signalLine, histogram |-> histogram]

\* return { macd: macdLine.toFixed(2), signal: signalLine.toFixed(2),
\* histogram: histogram.toFixed(2), analysis: signal }
macdResult(c) ==
    [macd |-> toFixed2(c.macdLine), signal |-> toFixed2(c.signalLine),
     histogram |-> toFixed2(c.histogram),
     analysis |-> macdAnalysis(c.macdLine, c.signalLine, c.histogram)]

\* calculateMACD(prices) of predict-price.js
calculateMACD(prices) == Call("calculateMACD", <<prices>>)
calculateMACD_body(prices) ==
    IF Len(prices) < MacdSlow THEN Null
    ELSE macdResult(macdCurrent(prices))

DefaultHistoryLength == 30

\* the constants of calculateMACD of part_002 for at least 26 prices
macdLines(prices) == Call("macdLines", <<prices>>)
macdLines_body(prices) ==
    LET ema12      == calculateEMA(prices, MacdFast)
        ema26      == calculateEMA(prices, MacdSlow)
        macdLine   == SubEach(ema12, ema26)
        signalLine == calculateEMA(macdLine, MacdSignal)
        histogram  == SubEach(macdLine, signalLine)
    IN  [ema12 |-> ema12, ema26 |-> ema26, macdLine |-> macdLine,
         signalLine |-> signalLine, histogram |-> histogram]

\* the object calculateMACD of part_002 returns
macdHistoryResult(l, dates, historyLength) ==
    [macd |-> toFixed2(l.macdLine[1]), signal |-> toFixed2(l.signalLine[1]),
     histogram |-> toFixed2(l.histogram[1]),
     analysis |-> macdAnalysis(l.macdLine[1], l.signalLine[1], l.histogram[1]),
     history |-> [labels |-> Reverse(Slice0(dates, historyLength)),
                  data   |-> Reverse(Slice0(l.histogram, historyLength))]]

\* calculateMACD(prices, dates, historyLength) of the Yahoo analysis function
calculateMACDHistory(prices, dates, historyLength) == Call("calculateMACDHistory", <<prices, dates, historyLength>>)
calculateMACDHistory_body(prices, dates, historyLength) ==
    IF Len(prices) < MacdSlow THEN Null
    ELSE macdHistoryResult(macdLines(prices), dates, historyLength)

----------------------------------------------------------------------------
(* Strings the handlers take apart are kept character by character; the     *)
(* texts they only pass on are kept whole.                                  *)

Str(chars) == [kind |-> "string", chars |-> chars]
Text(t)    == [kind |-> "string", text |-> t]

\* !v for a value that is undefined, null or a string
Falsy(v) == v = Undefined \/ v = Null \/ v = Str(<<>>) \/ v = Text("")

LowerLetters ==
    <<"a", "b", "c", "d", "e", "f", "g", "h", "i", "j", "k", "l", "m",
      "n", "o", "p", "q", "r", "s", "t", "u", "v", "w", "x", "y", "z">>
UpperLetters ==
    <<"A", "B", "C", "D", "E", "F", "G", "H", "I", "J", "K", "L", "M",
      "N", "O", "P", "Q", "R", "S", "T", "U", "V", "W", "X", "Y", "Z">>

\* the character c with the letters of from replaced by those of to
MapLetter(c, from, to) ==
    IF \E k \in 1..Len(from) : from[k] = c
    THEN to[CHOOSE k \in 1..Len(from) : from[k] = c]
    ELSE c

MapLetters(s, from, to) ==
    Str(SubSeq([j \in 1..Len(s.chars) |-> MapLetter(s.chars[j], from, to)],
               1, Len(s.chars)))

\* String.prototype.toUpperCase and toLowerCase
toUpperCase(s) == MapLetters(s, LowerLetters, UpperLetters)
toLowerCase(s) == MapLetters(s, UpperLetters, LowerLetters)

\* String.prototype.substring(start, end) for 0 <= start <= end
substring(s, start, end) ==
    Str(SubSeq(s.chars, Min(start, Len(s.chars)) + 1, Min(end, Len(s.chars))))

\* String.prototype.includes for a single character
includes(s, c) == \E j \in 1..Len(s.chars) : s.chars[j] = c

\* a template literal `${s}suffix`
Suffixed(s, suffix) == Str(s.chars \o suffix)

Digits == <<"0", "1", "2", "3", "4", "5", "6", "7", "8", "9">>

IsDigit(c) == \E d \in 1..10 : Digits[d] = c

DigitValue(c) == (CHOOSE d \in 1..10 : Digits[d] = c) - 1

\* the number of digits of s from index p on
DigitRun(s, p) ==
    Cardinality({q \in p..Len(s) : \A r \in p..q : IsDigit(s[r])})

RECURSIVE NatOfDigits(_, _, _, _)
\* the value of the n digits of s from index p on, after those of acc
NatOfDigits(s, p, n, acc) ==
    IF n = 0 THEN acc
    ELSE NatOfDigits(s, p + 1, n - 1,
                     NatAdd(NatMulS(acc, 10), NatFromInt(DigitValue(s[p]))))

\* the number of the literal: its sign, the digits mag of its mantissa, of
\* which fracs follow the point, and its exponent exp
parseValue(neg, mag, fracs, exp) ==
    MkNum(neg, NatMul(mag, NatPow(10, Max(exp, 0))),
          <<fracs - Min(exp, 0), 0, fracs - Min(exp, 0), 0, 0, 0>>)

\* the exponent whose digits start at index ep of s; 0 where there are none
parseExpDigits(s, ep, exps, negative) ==
    IF exps = 0 THEN 0
    ELSE NatToInt(NatOfDigits(s, ep, exps, <<>>)) * (IF negative THEN -1 ELSE 1)

\* the exponent part that may start at index e of s
parseExp(s, e) ==
    IF e <= Len(s) /\ s[e] \in {"e", "E"}
    THEN IF e < Len(s) /\ s[e + 1] \in {"+", "-"}
         THEN parseExpDigits(s, e + 2, DigitRun(s, e + 2), s[e + 1] = "-")
         ELSE parseExpDigits(s, e + 1, DigitRun(s, e + 1), FALSE)
    ELSE 0

\* the literal with ints digits from index p of s on and, where dot holds, a
\* point and fracs digits after them
parseMantissa(s, neg, p, ints, dot, fracs) ==
    IF ints + fracs = 0 THEN NaN
    ELSE parseValue(neg,
                    NatOfDigits(s, p + ints + 1, fracs, NatOfDigits(s, p, ints, <<>>)),
                    fracs,
                    parseExp(s, p + ints + (IF dot THEN 1 + fracs ELSE 0)))

parsePoint(s, neg, p, ints) ==
    IF p + ints <= Len(s) /\ s[p + ints] = "."
    THEN parseMantissa(s, neg, p, ints, TRUE, DigitRun(s, p + ints + 1))
    ELSE parseMantissa(s, neg, p, ints, FALSE, 0)

\* the literal after white characters of white space
parseSign(s, white) ==
    IF white < Len(s) /\ s[white + 1] \in {"+", "-"}
    THEN parsePoint(s, s[white + 1] = "-", white + 2, DigitRun(s, white + 2))
    ELSE parsePoint(s, FALSE, white + 1, DigitRun(s, white + 1))

\* parseFloat of the characters s: the longest prefix that is a decimal
\* literal (white space, sign, digits, point, digits, exponent); NaN where
\* there is none.  The literal Infinity is left out.
parseChars(s) ==
    parseSign(s, Cardinality({q \in 1..Len(s) : \A r \in 1..q : s[r] = " "}))

\* parseFloat(v): undefined is converted to the string "undefined"
parseFloat(v) == IF v = Undefined THEN NaN ELSE parseChars(v.chars)

MonthShort ==
    <<"Jan", "Feb", "Mar", "Apr", "May", "Jun",
      "Jul", "Aug", "Sep", "Oct", "Nov", "Dec">>

\* new Date(ts * 1000).toLocaleDateString('en-GB', {day:'2-digit',
\* month:'short'}) where the local time is UTC: the day of the month and the
\* month of the day that holds the second ts
DateLabel(ts) ==
    LET z   == (ts \div 86400) + 719468
        era == z \div 146097
        doe == z - era * 146097
        yoe == (doe - (doe \div 1460) + (doe \div 36524) - (doe \div 146096)) \div 365
        doy == doe - (365 * yoe + (yoe \div 4) - (yoe \div 100))
        mp  == (5 * doy + 2) \div 153
        day == doy - ((153 * mp + 2) \div 5) + 1
        month == IF mp < 10 THEN mp + 3 ELSE mp - 9
    IN  [kind |-> "string", day |-> day, month |-> MonthShort[month]]

\* JSON.stringify of an object whose values are objects, strings or null:
\* a property that is undefined is left out
Stringify(obj) == [k \in {f \in DOMAIN obj : obj[f] # Undefined} |-> obj[k]]

\* JSON.stringify of an array of numbers: NaN becomes null
StringifyNumbers(a) ==
    SubSeq([j \in 1..Len(a) |-> IF a[j].nan THEN Null ELSE a[j]], 1, Len(a))

----------------------------------------------------------------------------
(* The analysis handlers.  A handler is a function of its event, of the     *)
(* environment and of what upstream answers.  Beside the response it gives  *)
(* the requests it made and the arrays it built; with every element of      *)
(* closingPrices goes the time of the sample it was read from.              *)

\* the promise of the handler rejects: the destructuring is outside the try
Rejected == [rejected |-> "TypeError"]
NoLocals == [kind |-> "none"]

Respond(status, body) == [statusCode |-> status, body |-> body]
ErrorBody(t) == [error |-> Text(t)]
ServerError  == Respond(500, ErrorBody("An unexpected server error occurred."))

Outcome(resp, reqs, loc) == [response |-> resp, requests |-> reqs, locals |-> loc]

Locals(closingPrices, closingSamples, dates) ==
    [kind |-> "arrays",
     closingPrices     |-> closingPrices,
     newestPricesFirst |-> Reverse(closingPrices),
     dates             |-> dates,
     closingSamples    |-> closingSamples,
     newestSamples     |-> Reverse(closingSamples)]

StockType  == Str(<<"s", "t", "o", "c", "k">>)
CryptoType == Str(<<"c", "r", "y", "p", "t", "o">>)
ForexType  == Str(<<"f", "o", "r", "e", "x">>)
USD        == Str(<<"U", "S", "D">>)

\* v?.toFixed(2)
OptionalToFixed2(v) == IF v = Null \/ v = Undefined THEN Undefined ELSE toFixed2(v)

\* a[0]?.toFixed(2)
FirstToFixed2(a) == IF a = <<>> THEN Undefined ELSE toFixed2(a[1])

\* techUrl, dataKey, priceKey and marketCurrency of predict-price.js, for an
\* asset type it knows
techRequest(assetType, ticker) ==
    IF assetType = StockType
    THEN [function |-> "TIME_SERIES_DAILY", symbol |-> ticker,
          dataKey |-> "Time Series (Daily)", priceKey |-> "4. close",
          marketCurrency |-> USD]
    ELSE IF assetType = CryptoType
    THEN [function |-> "DIGITAL_CURRENCY_DAILY", symbol |-> ticker,
          dataKey |-> "Time Series (Digital Currency Daily)",
          priceKey |-> "4a. close (USD)", marketCurrency |-> USD]
    ELSE LET from_symbol == substring(ticker, 0, 3)
             to_symbol   == substring(ticker, 3, 6)
         IN  [function |-> "FX_DAILY", from_symbol |-> from_symbol,
              to_symbol |-> to_symbol, dataKey |-> "Time Series FX (Daily)",
              priceKey |-> "4. close", marketCurrency |-> toUpperCase(to_symbol)]

\* day[priceKey] of a day of the payload
DayPrice(tech, j, priceKey) ==
    IF tech.priceKey = priceKey THEN tech.days[j].close ELSE Undefined

\* Object.values(timeSeries).map(day => parseFloat(day[priceKey])).reverse()
avClosingPrices(tech, priceKey) ==
    Reverse(SubSeq([j \in 1..Len(tech.days) |-> parseFloat(DayPrice(tech, j, priceKey))],
                   1, Len(tech.days)))

avClosingSamples(tech) ==
    Reverse(SubSeq([j \in 1..Len(tech.days) |-> tech.days[j].date], 1, Len(tech.days)))

\* (a slip: without a MACD no indicator is reported)
avTechnicalAnalysis_AllOrNothing(closingPrices, newestPricesFirst) ==
    IF calculateMACD(closingPrices) = Null
    THEN [rsi |-> Null, macd |-> Null, bollingerBands |-> Null,
          sma20 |-> Undefined, sma50 |-> Undefined]
    ELSE [rsi            |-> calculateRSI(closingPrices, DefaultRsiPeriod),
          macd           |-> calculateMACD(closingPrices),
          bollingerBands |-> calculateBollingerBands(newestPricesFirst,
                                                     DefaultBollingerPeriod),
          sma20          |-> OptionalToFixed2(calculateSMA(newestPricesFirst, 20)),
          sma50          |-> OptionalToFixed2(calculateSMA(newestPricesFirst, 50))]

\* the technicalAnalysis object of predict-price.js
avTechnicalAnalysis(closingPrices, newestPricesFirst) ==
    [rsi            |-> calculateRSI(closingPrices, DefaultRsiPeriod),
     macd           |-> calculateMACD(closingPrices),
     bollingerBands |-> calculateBollingerBands(newestPricesFirst,
                                                DefaultBollingerPeriod),
     sma20          |-> OptionalToFixed2(calculateSMA(newestPricesFirst, 20)),
     sma50          |-> OptionalToFixed2(calculateSMA(newestPricesFirst, 50))]

\* step 3 of predict-price.js, from the parsed overview on
avFundamentalAnalysis(fundamentalData) ==
    IF /\ ~Falsy(fundamentalData)
       /\ Falsy(fundamentalData.Note)
       /\ Falsy(fundamentalData.ErrorMessage)
       /\ ~Falsy(fundamentalData.Symbol)
    THEN Stringify([marketCap          |-> fundamentalData.MarketCapitalization,
                    peRatio            |-> fundamentalData.PERatio,
                    eps                |-> fundamentalData.EPS,
                    analystTargetPrice |-> fundamentalData.AnalystTargetPrice,
                    yearHigh           |-> fundamentalData.WeekHigh52,
                    yearLow            |-> fundamentalData.WeekLow52,
                    description        |-> fundamentalData.Description])
    ELSE Null

\* (a slip: lastClose is read as newestPricesFirst[0]?.toFixed(2))
avResponse_OptionalLastClose(ticker, isStock, request, fundamental, closingPrices, newestPricesFirst) ==
    IF isStock /\ fundamental.kind # "json" THEN ServerError
    ELSE Respond(200,
           Stringify(
             [ticker    |-> toUpperCase(ticker),
              lastClose |-> FirstToFixed2(newestPricesFirst),
              currency  |-> request.marketCurrency,
              technicalAnalysis |->
                  Stringify(avTechnicalAnalysis(closingPrices, newestPricesFirst)),
              fundamentalAnalysis |->
                  IF isStock THEN avFundamentalAnalysis(fundamental.data) ELSE Null]))

\* steps 2 to 4 of predict-price.js
avResponse(ticker, isStock, request, fundamental, closingPrices, newestPricesFirst) ==
    IF isStock /\ fundamental.kind # "json" THEN ServerError
    ELSE IF newestPricesFirst = <<>> THEN ServerError
    ELSE Respond(200,
           [ticker    |-> toUpperCase(ticker),
            lastClose |-> toFixed2(newestPricesFirst[1]),
            currency  |-> request.marketCurrency,
            technicalAnalysis |->
                Stringify(avTechnicalAnalysis(closingPrices, newestPricesFirst)),
            fundamentalAnalysis |->
                IF isStock THEN avFundamentalAnalysis(fundamental.data) ELSE Null])

\* the requests of a run that got its technical data
avRequests(ticker, isStock, request) ==
    IF isStock THEN <<request, [function |-> "OVERVIEW", symbol |-> ticker]>>
    ELSE <<request>>

avReportOf(ticker, isStock, request, tech, fundamental, closingPrices) ==
    Outcome(avResponse(ticker, isStock, request, fundamental, closingPrices,
                       Reverse(closingPrices)),
            avRequests(ticker, isStock, request),
            Locals(closingPrices, avClosingSamples(tech), <<>>))

avReport(ticker, assetType, request, tech, fundamental) ==
    avReportOf(ticker, assetType = StockType, request, tech, fundamental,
               avClosingPrices(tech, request.priceKey))

\* exports.handler of predict-price.js
predictPriceHandler(event, apiKey, tech, fundamental) == Call("predictPriceHandler", <<event, apiKey, tech, fundamental>>)
predictPriceHandler_body(event, apiKey, tech, fundamental) ==
    LET qsp == event.queryStringParameters
    IN  IF qsp = Null THEN Outcome(Rejected, <<>>, NoLocals)
        ELSE IF Falsy(apiKey) \/ Falsy(qsp.ticker) \/ Falsy(qsp.type)
        THEN Outcome(Respond(400, ErrorBody("Missing required parameters.")),
                     <<>>, NoLocals)
        ELSE LET assetType == toLowerCase(qsp.type)
             IN  IF assetType \notin {StockType, CryptoType, ForexType}
                 THEN Outcome(Respond(400, ErrorBody("Invalid asset type.")),
                              <<>>, NoLocals)
                 ELSE LET request == techRequest(assetType, qsp.ticker)
                      IN  IF tech.kind # "json"
                          THEN Outcome(ServerError, <<request>>, NoLocals)
                          ELSE IF \/ ~Falsy(tech.Note)
                                  \/ ~Falsy(tech.ErrorMessage)
                                  \/ tech.dataKey # request.dataKey
                          THEN Outcome(
                                 Respond(400,
                                   [error |->
                                     [kind |-> "string",
                                      text |-> "Could not fetch technical data for",
                                      ticker |-> qsp.ticker,
                                      message |->
                                        IF ~Falsy(tech.Note) THEN tech.Note
                                        ELSE IF ~Falsy(tech.ErrorMessage)
                                        THEN tech.ErrorMessage
                                        ELSE Text("Invalid symbol")]]),
                                 <<request>>, NoLocals)
                          ELSE avReport(qsp.ticker, assetType, request, tech,
                                        fundamental)

\* (a slip: the ticker is not upper-cased)
yahooTickerOf_AsTyped(ticker, assetType) ==
    IF assetType = StockType
    THEN IF ~includes(ticker, ".")
         THEN IF \/ ticker = Str(<<"N", "I", "F", "T", "Y", "_", "5", "0">>)
                 \/ ticker = Str(<<"N", "I", "F", "T", "Y", " ", "5", "0">>)
              THEN Str(<<"^", "N", "S", "E", "I">>)
              ELSE IF ticker = Str(<<"N", "I", "F", "T", "Y", "_", "B", "A", "N", "K">>)
              THEN Str(<<"^", "N", "S", "E", "B", "A", "N", "K">>)
              ELSE IF ticker = Str(<<"S", "E", "N", "S", "E", "X">>)
              THEN Str(<<"^", "B", "S", "E", "S", "N">>)
              ELSE Suffixed(ticker, <<".", "N", "S">>)
         ELSE ticker
    ELSE IF assetType = CryptoType THEN Suffixed(ticker, <<"-", "U", "S", "D">>)
    ELSE IF assetType = ForexType THEN Suffixed(ticker, <<"=", "X">>)
    ELSE ticker

\* the symbol the handler of part_002 asks Yahoo for
yahooTickerOf(ticker, assetType) ==
    LET upper == toUpperCase(ticker)
    IN  IF assetType = StockType
        THEN IF ~includes(upper, ".")
             THEN IF \/ upper = Str(<<"N", "I", "F", "T", "Y", "_", "5", "0">>)
                     \/ upper = Str(<<"N", "I", "F", "T", "Y", " ", "5", "0">>)
                  THEN Str(<<"^", "N", "S", "E", "I">>)
                  ELSE IF upper = Str(<<"N", "I", "F", "T", "Y", "_", "B", "A", "N", "K">>)
                  THEN Str(<<"^", "N", "S", "E", "B", "A", "N", "K">>)
                  ELSE IF upper = Str(<<"S", "E", "N", "S", "E", "X">>)
                  THEN Str(<<"^", "B", "S", "E", "S", "N">>)
                  ELSE Suffixed(upper, <<".", "N", "S">>)
             ELSE upper
        ELSE IF assetType = CryptoType THEN Suffixed(upper, <<"-", "U", "S", "D">>)
        ELSE IF assetType = ForexType THEN Suffixed(upper, <<"=", "X">>)
        ELSE upper

NotFound(ticker) ==
    Respond(404, [error |-> [kind |-> "string", text |-> "Could not find data for",
                             ticker |-> ticker]])

\* data.chart?.result?.[0], undefined where the chain ends early
yahooResult(data) ==
    IF Falsy(data.chart) THEN Undefined
    ELSE IF Falsy(data.chart.result) THEN Undefined
    ELSE IF data.chart.result.items = <<>> THEN Undefined
    ELSE data.chart.result.items[1]

\* result.indicators.quote[0].close can be read and filtered
HasCloses(result) ==
    /\ ~Falsy(result.indicators)
    /\ ~Falsy(result.indicators.quote)
    /\ result.indicators.quote.items # <<>>
    /\ ~Falsy(result.indicators.quote.items[1])
    /\ ~Falsy(result.indicators.quote.items[1].close)

\* the indices of the closes that are not null
KeptIndices(close) ==
    SelectSeq(SubSeq([j \in 1..Len(close) |-> j], 1, Len(close)),
              LAMBDA j : close[j] # Null)

\* quotes.close.filter(p => p !== null).reverse()
yahooClosingPrices(close) == Reverse(SelectSeq(close, LAMBDA p : p # Null))

yahooClosingSamples(close, timestamps) ==
    LET kept == KeptIndices(close)
    IN  Reverse(SubSeq([k \in 1..Len(kept) |->
                          IF kept[k] <= Len(timestamps) THEN timestamps[kept[k]] ELSE -1],
                       1, Len(kept)))

\* timestamps.map(ts => new Date(ts * 1000).toLocaleDateString(...))
yahooDates(timestamps) ==
    SubSeq([j \in 1..Len(timestamps) |-> DateLabel(timestamps[j])], 1, Len(timestamps))

\* the MACD result as JSON.stringify writes it
macdJson(m) ==
    IF m = Null THEN Null
    ELSE [m EXCEPT !.history = [labels |-> m.history.labels,
                                data   |-> StringifyNumbers(m.history.data)]]

\* the technicalAnalysis object of part_002
yahooTechnicalAnalysis(closingPrices, newestPricesFirst, dates) ==
    [rsi            |-> calculateRSI(closingPrices, DefaultRsiPeriod),
     macd           |-> macdJson(calculateMACDHistory(closingPrices, dates,
                                                      DefaultHistoryLength)),
     bollingerBands |-> calculateBollingerBands(newestPricesFirst,
                                                DefaultBollingerPeriod),
     ema5           |-> FirstToFixed2(calculateEMA(newestPricesFirst, 5)),
     ema9           |-> FirstToFixed2(calculateEMA(newestPricesFirst, 9)),
     sma50          |-> OptionalToFixed2(calculateSMA(newestPricesFirst, 50))]

\* the handler of part_002 from const result on
yahooResponse(result, closingPrices, newestPricesFirst, dates) ==
    IF Falsy(result.meta) \/ newestPricesFirst = <<>> THEN ServerError
    ELSE Respond(200,
           Stringify(
             [ticker    |-> result.meta.symbol,
              lastClose |-> toFixed2(newestPricesFirst[1]),
              currency  |-> result.meta.currency,
              technicalAnalysis |->
                  Stringify(yahooTechnicalAnalysis(closingPrices, newestPricesFirst,
                                                   dates)),
              fundamentalAnalysis |-> Null]))

yahooReportOf(result, request, timestamps, close, closingPrices, dates) ==
    Outcome(yahooResponse(result, closingPrices, Reverse(closingPrices), dates),
            <<request>>,
            Locals(closingPrices, yahooClosingSamples(close, timestamps), dates))

yahooArrays(result, request, timestamps, close) ==
    yahooReportOf(result, request, timestamps, close, yahooClosingPrices(close),
                  yahooDates(timestamps))

yahooReport(result, request) ==
    IF ~HasCloses(result) THEN Outcome(ServerError, <<request>>, NoLocals)
    ELSE yahooArrays(result, request, result.timestamp.items,
                     result.indicators.quote.items[1].close.items)

\* exports.handler of part_002
yahooAnalysisHandler(event, upstream) == Call("yahooAnalysisHandler", <<event, upstream>>)
yahooAnalysisHandler_body(event, upstream) ==
    LET qsp == event.queryStringParameters
    IN  IF qsp = Null THEN Outcome(Rejected, <<>>, NoLocals)
        ELSE IF Falsy(qsp.ticker) \/ Falsy(qsp.type)
        THEN Outcome(Respond(400, ErrorBody("Missing ticker or type.")), <<>>, NoLocals)
        ELSE LET yahooTicker == yahooTickerOf(qsp.ticker, toLowerCase(qsp.type))
                 request     == [chart |-> yahooTicker]
             IN  IF upstream.kind # "json"
                 THEN Outcome(ServerError, <<request>>, NoLocals)
                 ELSE IF ~upstream.ok
                 THEN Outcome(NotFound(qsp.ticker), <<request>>, NoLocals)
                 ELSE IF upstream.data = Null
                 THEN Outcome(ServerError, <<request>>, NoLocals)
                 ELSE LET result == yahooResult(upstream.data)
                      IN  IF Falsy(result) \/ Falsy(result.timestamp)
                          THEN Outcome(NotFound(qsp.ticker), <<request>>, NoLocals)
                          ELSE yahooReport(result, request)

\* The same handler with its arrays held by reference.  closingPrices is the
\* array filter() made, turned in place; newestPricesFirst is a copy of it,
\* turned in place; emas is the array calculateEMA makes.
yahooHeap(close) ==
    [closingPrices     |-> Reverse(SelectSeq(close, LAMBDA p : p # Null)),
     newestPricesFirst |-> Reverse(Reverse(SelectSeq(close, LAMBDA p : p # Null))),
     emas              |-> <<>>]

\* (a slip: calculateEMA turns the array it was given)
emaReversed_Argument(ref) == ref

\* the array calculateEMA turns in place on its last line, given the array at ref
emaReversed(ref) == "emas"

\* the functions on the heap, applied by name
RECURSIVE HeapCall(_, _)

\* calculateEMA on the array at ref: the heap after it and what it returned
heapEMA(heap, ref, window) == HeapCall("heapEMA", <<heap, ref, window>>)
heapEMA_body(heap, ref, window) ==
    IF Len(heap[ref]) < window THEN [heap |-> heap, ret |-> <<>>]
    ELSE LET pushed == [heap EXCEPT !.emas =
                           emaLoop(heap[ref], emaK(window),
                                   <<heap[ref][Len(heap[ref])]>>, Len(heap[ref]) - 1)]
             target == emaReversed(ref)
             turned == [pushed EXCEPT ![target] = Reverse(@)]
         IN  [heap |-> turned, ret |-> turned[target]]

\* technicalAnalysis, its properties in the order they are written: the heap
\* after them and the object
heapTechnicalAnalysis(heap, dates) == HeapCall("heapTechnicalAnalysis", <<heap, dates>>)
heapTechnicalAnalysis_body(heap, dates) ==
    LET rsi   == calculateRSI(heap.closingPrices, DefaultRsiPeriod)
        macd  == macdJson(calculateMACDHistory(heap.closingPrices, dates,
                                               DefaultHistoryLength))
        h1    == IF Len(heap.closingPrices) < MacdSlow THEN heap
                 ELSE heapEMA(heapEMA(heap, "closingPrices", MacdFast).heap,
                              "closingPrices", MacdSlow).heap
        bands == calculateBollingerBands(h1.newestPricesFirst, DefaultBollingerPeriod)
        e5    == heapEMA(h1, "newestPricesFirst", 5)
        e9    == heapEMA(e5.heap, "newestPricesFirst", 9)
        sma50 == calculateSMA(e9.heap.newestPricesFirst, 50)
    IN  [heap |-> e9.heap,
         technicalAnalysis |->
             [rsi |-> rsi, macd |-> macd, bollingerBands |-> bands,
              ema5  |-> FirstToFixed2(e5.ret),
              ema9  |-> FirstToFixed2(e9.ret),
              sma50 |-> OptionalToFixed2(sma50)]]

\* the handler from the arrays to its return
heapResponse(result, heap, dates) ==
    LET run == heapTechnicalAnalysis(heap, dates)
    IN  [arrays   |-> run.heap,
         response |->
             IF Falsy(result.meta) \/ run.heap.newestPricesFirst = <<>> THEN ServerError
             ELSE Respond(200,
                    Stringify(
                      [ticker    |-> result.meta.symbol,
                       lastClose |-> toFixed2(run.heap.newestPricesFirst[1]),
                       currency  |-> result.meta.currency,
                       technicalAnalysis |-> Stringify(run.technicalAnalysis),
                       fundamentalAnalysis |-> Null]))]

\* the handler after data is bound, with the ticker and the response.ok it reads
heapReport(ticker, ok, data) == HeapCall("heapReport", <<ticker, ok, data>>)
heapReport_body(ticker, ok, data) ==
    IF ~ok THEN [arrays |-> Null, response |-> NotFound(ticker)]
    ELSE IF data = Null THEN [arrays |-> Null, response |-> ServerError]
    ELSE LET result == yahooResult(data)
         IN  IF Falsy(result) \/ Falsy(result.timestamp)
             THEN [arrays |-> Null, response |-> NotFound(ticker)]
             ELSE IF ~HasCloses(result) THEN [arrays |-> Null, response |-> ServerError]
             ELSE heapResponse(result,
                               yahooHeap(result.indicators.quote.items[1].close.items),
                               yahooDates(result.timestamp.items))

HeapCall(f, a) ==
    CASE f = "heapEMA" -> heapEMA_body(a[1], a[2], a[3])
      [] f = "heapTechnicalAnalysis" -> heapTechnicalAnalysis_body(a[1], a[2])
      [] f = "heapReport" -> heapReport_body(a[1], a[2], a[3])

\* (a slip: response is assigned without a declaration)
scopeOf_Undeclared(name) == IF name = "response" THEN "module" ELSE "handler"

\* where a name of the handler is bound: each is a const of its body
scopeOf(name) == "handler"

\* the names read after an await
NoBindings == [ticker |-> Undefined, response |-> Undefined]

BindModule(scope, name, v) ==
    IF scopeOf(name) = "module" THEN [scope EXCEPT ![name] = v] ELSE scope

BindFrame(bindings, name, v) ==
    IF scopeOf(name) = "module" THEN bindings ELSE [bindings EXCEPT ![name] = v]

Lookup(scope, bindings, name) ==
    IF scopeOf(name) = "module" THEN scope[name] ELSE bindings[name]

Call(f, a) ==
    CASE f = "NatMul" -> NatMul_body(a[1], a[2])
      [] f = "NAdd" -> NAdd_body(a[1], a[2])
      [] f = "FAdd" -> FAdd_body(a[1], a[2])
      [] f = "toFixed2" -> toFixed2_body(a[1])
      [] f = "FracToFixed2" -> FracToFixed2_body(a[1])
      [] f = "GtSurd" -> GtSurd_body(a[1], a[2])
      [] f = "LtSurd" -> LtSurd_body(a[1], a[2])
      [] f = "SurdToFixed2" -> SurdToFixed2_body(a[1])
      [] f = "calculateSMA" -> calculateSMA_body(a[1], a[2])
      [] f = "calculateSma" -> calculateSma_body(a[1], a[2])
      [] f = "calculateEMA" -> calculateEMA_body(a[1], a[2])
      [] f = "rsiSeed" -> rsiSeed_body(a[1], a[2])
      [] f = "rsiSmoothStep" -> rsiSmoothStep_body(a[1], a[2], a[3], a[4])
      [] f = "rsiResult" -> rsiResult_body(a[1], a[2])
      [] f = "rsiAverages" -> rsiAverages_body(a[1], a[2])
      [] f = "calculateRSI" -> calculateRSI_body(a[1], a[2])
      [] f = "calculateBollingerBands" -> calculateBollingerBands_body(a[1], a[2])
      [] f = "bollingerBands" -> bollingerBands_body(a[1], a[2])
      [] f = "macdCurrent" -> macdCurrent_body(a[1])
      [] f = "macdLines" -> macdLines_body(a[1])
      [] f = "calculateMACD" -> calculateMACD_body(a[1])
      [] f = "calculateMACDHistory" -> calculateMACDHistory_body(a[1], a[2], a[3])
      [] f = "predictPriceHandler" -> predictPriceHandler_body(a[1], a[2], a[3], a[4])
      [] f = "yahooAnalysisHandler" -> yahooAnalysisHandler_body(a[1], a[2])

----------------------------------------------------------------------------
(* The indicator functions called on their own: the inputs are drawn at the *)
(* start, one function is applied to them.  calculateRSI is run loop        *)
(* iteration by loop iteration, so that its averages are seen after every    *)
(* smoothing step.                                                          *)

MaxLen == 4
MaxPrice  == 2
MaxPeriod == 3

Closes    == {Num(v) : v \in 0..MaxPrice}
PriceSeqs == UNION {[1..n -> Closes] : n \in 0..MaxLen}
Periods   == 1..MaxPeriod

VARIABLES
    pc,        \* "idle", "rsi_smooth" (in calculateRSI's second loop), "done"
    fn,        \* the function applied
    prices,    \* its first argument
    period,    \* its second argument
    i,         \* calculateRSI's loop variable (JavaScript index)
    avg,       \* calculateRSI's <<avgGain, avgLoss>>
    result,    \* what the function returned
    call,      \* a handler's invocation: the event and what upstream answers
    response,  \* what the handler returned
    requests,  \* the requests the handler made upstream
    locals,    \* the arrays the handler built
    variant,   \* the create-subscription handler deployed
    auth,      \* Firebase Auth: the emails that have an account
    db,        \* Firestore: the subscription document of each uid, or null
    clock,     \* the day new Date() gives
    tasks,     \* the concurrent requests, each at its await
    moduleScope \* the bindings of the module of part_002 the handler assigns

analysisVars == <<pc, fn, prices, period, i, avg, result, call, response, requests, locals>>
firebaseVars == <<variant, auth, db, clock, tasks, moduleScope>>
vars == <<analysisVars, firebaseVars>>

NoCall     == [handler |-> "none"]
NoResponse == [statusCode |-> 0]

\* no create-subscription handler is deployed
NoFirebase ==
    /\ variant = [handler |-> "none", initialized |-> FALSE]
    /\ auth = {}
    /\ db = <<>>
    /\ clock = [year |-> 2024, month |-> 1, day |-> 1]
    /\ tasks = <<>>
    /\ moduleScope = NoBindings

Init ==
    /\ pc = "idle"
    /\ fn = "none"
    /\ prices \in PriceSeqs
    /\ period \in Periods
    /\ i = 0
    /\ avg = <<Zero, Zero>>
    /\ result = Undefined
    /\ call = NoCall
    /\ response = NoResponse
    /\ requests = <<>>
    /\ locals = NoLocals
    /\ NoFirebase

Return(f, r) ==
    /\ pc' = "done"
    /\ fn' = f
    /\ result' = r
    /\ UNCHANGED <<firebaseVars, prices, period, call, response, requests, locals>>

CallSMA ==
    /\ pc = "idle"
    /\ Return("calculateSMA", calculateSMA(prices, period))
    /\ UNCHANGED <<firebaseVars, i, avg>>

CallSma ==
    /\ pc = "idle"
    /\ \E nullArg \in BOOLEAN :
          Return("calculateSma",
                 [nullArg |-> nullArg,
                  ret |-> calculateSma(IF nullArg THEN Null ELSE Arr(prices), period)])
    /\ UNCHANGED <<firebaseVars, i, avg>>

CallEMA ==
    /\ pc = "idle"
    /\ Return("calculateEMA", calculateEMA(prices, period))
    /\ UNCHANGED <<firebaseVars, i, avg>>

\* calculateRSI up to the second loop
RsiEnter ==
    /\ pc = "idle"
    /\ IF Len(prices) <= period
       THEN /\ Return("calculateRSI", Null)
            /\ UNCHANGED <<firebaseVars, i, avg>>
       ELSE /\ pc' = "rsi_smooth"
            /\ fn' = "calculateRSI"
            /\ avg' = rsiSeed(prices, period)
            /\ i' = Len(prices) - period - 2
            /\ UNCHANGED <<firebaseVars, prices, period, result, call, response, requests, locals>>

\* one iteration of the second loop
RsiSmooth ==
    /\ pc = "rsi_smooth"
    /\ i >= 0
    /\ avg' = rsiSmoothStep(prices, period, i, avg)
    /\ i' = i - 1
    /\ UNCHANGED <<firebaseVars, pc, fn, prices, period, result, call, response, requests, locals>>

\* the loop is over: the result
RsiReturn ==
    /\ pc = "rsi_smooth"
    /\ i < 0
    /\ Return("calculateRSI", rsiResult(avg[1], avg[2]))
    /\ UNCHANGED <<firebaseVars, i, avg>>

Next ==
    \/ CallSMA
    \/ CallSma
    \/ CallEMA
    \/ RsiEnter
    \/ RsiSmooth
    \/ RsiReturn

Spec == Init /\ [][Next]_vars

\* the stepwise run of calculateRSI ends with what the function returns
RsiStepsAgree ==
    (pc = "done" /\ fn = "calculateRSI") => result = calculateRSI(prices, period)

----------------------------------------------------------------------------
(* The analysis handlers invoked: one invocation, drawn from the events     *)
(* and the upstream answers below, is handled from start to end.            *)

MaxSamples == 32
FirstDay   == 19724      \* the day of the oldest sample, in days since 1970

\* the close, in hundredths, of the t-th oldest sample of a series
ShapeCents(shape, t) ==
    CASE shape = "rising"  -> 10000 + 50 * (t - 1)
      [] shape = "falling" -> 12000 - 50 * (t - 1)
      [] shape = "flat"    -> 5000
      [] shape = "zigzag"  -> 10000 + 25 * ((t * 37) % 11) - 10 * (t % 3)
      [] shape = "seventy" -> IF t <= 8 THEN 10000 + 100 * (8 - t)
                              ELSE IF t <= 11 THEN 10000 + 100 * (t - 8) ELSE 10300
      [] shape = "thirty"  -> IF t <= 8 THEN 10000 - 100 * (8 - t)
                              ELSE IF t <= 11 THEN 10000 - 100 * (t - 8) ELSE 9700
      [] shape = "peak"    -> IF t = 1 THEN 20000 ELSE 10000 + 25 * (t % 3)
      [] shape = "trough"  -> IF t = 1 THEN 2500 ELSE 10000 + 25 * (t % 3)

Shapes        == {"rising", "falling", "flat", "zigzag"}
SeriesLengths == {15, 25, 26, MaxSamples}

RECURSIVE DigitChars(_)
DigitChars(n) ==
    IF n < 10 THEN <<Digits[n + 1]>>
    ELSE DigitChars(n \div 10) \o <<Digits[(n % 10) + 1]>>

\* c hundredths as Alpha Vantage writes a price: four decimals
DecimalText(c) ==
    Str(DigitChars(c \div 100)
        \o <<".", Digits[((c % 100) \div 10) + 1], Digits[(c % 10) + 1], "0", "0">>)

Tickers ==
    {Undefined, Str(<<>>), Str(<<"a", "a", "p", "l">>),
     Str(<<"e", "u", "r", "u", "s", "d">>), Str(<<"e", "u">>),
     Str(<<"N", "I", "F", "T", "Y", " ", "5", "0">>),
     Str(<<"n", "i", "f", "t", "y", "_", "5", "0">>),
     Str(<<"n", "i", "f", "t", "y", "_", "b", "a", "n", "k">>),
     Str(<<"S", "e", "n", "s", "e", "x">>), Str(<<"t", "c", "s", ".", "b", "o">>),
     Str(<<"R", "e", "l", "i", "a", "n", "c", "e">>)}
Types ==
    {Undefined, Str(<<>>), StockType, Str(<<"S", "t", "o", "c", "k">>), CryptoType,
     Str(<<"F", "O", "R", "E", "X">>), Str(<<"b", "o", "n", "d">>)}
Events ==
    {[queryStringParameters |-> Null]}
    \cup {[queryStringParameters |-> [ticker |-> tk, type |-> ty]] :
             tk \in Tickers, ty \in Types}
EventOf(tk, ty) == [queryStringParameters |-> [ticker |-> Str(tk), type |-> ty]]

ApiKeys == {Undefined, Str(<<>>), Str(<<"k", "e", "y">>)}

\* a parsed Alpha Vantage payload that carries the series days under dataKey
AvSeries(dataKey, priceKey, days) ==
    [kind |-> "json", Note |-> Undefined, ErrorMessage |-> Undefined,
     dataKey |-> dataKey, priceKey |-> priceKey, days |-> days]

\* the days of a series of n samples, the newest first
AvDays(shape, n) ==
    SubSeq([j \in 1..n |-> [date  |-> FirstDay + n - j,
                            close |-> DecimalText(ShapeCents(shape, n + 1 - j))]],
           1, n)

AvCloses == {Undefined, Str(<<"a", "b", "c">>), DecimalText(150)}
AvShortDays ==
    UNION {{SubSeq([j \in 1..n |-> [date |-> FirstDay + n - j, close |-> c[j]]], 1, n) :
               c \in [1..n -> AvCloses]} : n \in 0..2}

AvFailures ==
    {[kind |-> "network_error"], [kind |-> "not_json"], [kind |-> "json_null"],
     [AvSeries("", "", <<>>) EXCEPT !.Note = Text("rate limit")],
     [AvSeries("", "", <<>>) EXCEPT !.ErrorMessage = Text("Invalid API call.")],
     [AvSeries("Time Series (Daily)", "4. close", AvDays("flat", 1))
         EXCEPT !.Note = Text("rate limit"), !.ErrorMessage = Text("Invalid API call.")],
     AvSeries("", "", <<>>)}

Overview(symbol, eps) ==
    [Note |-> Undefined, ErrorMessage |-> Undefined, Symbol |-> symbol,
     MarketCapitalization |-> Text("2500000000"), PERatio |-> Text("28.1"),
     EPS |-> eps, AnalystTargetPrice |-> Text("190.5"), WeekHigh52 |-> Text("199.6"),
     WeekLow52 |-> Text("124.2"), Description |-> Text("A company.")]
FullOverview == [kind |-> "json", data |-> Overview(Text("AAPL"), Text("6.1"))]
Fundamentals ==
    {[kind |-> "network_error"], [kind |-> "not_json"], [kind |-> "json", data |-> Null],
     FullOverview,
     [kind |-> "json", data |-> Overview(Text("AAPL"), Undefined)],
     [kind |-> "json", data |-> Overview(Undefined, Text("6.1"))],
     [kind |-> "json", data |-> [Overview(Text("AAPL"), Text("6.1"))
                                   EXCEPT !.Note = Text("rate limit")]],
     [kind |-> "json", data |-> [Overview(Undefined, Undefined)
                                   EXCEPT !.ErrorMessage = Text("Invalid API call.")]]}

AvCall(event, apiKey, tech, fundamental) ==
    [handler |-> "predict-price", event |-> event, apiKey |-> apiKey, tech |-> tech,
     fundamental |-> fundamental]

AvSeriesKeys ==
    {<<StockType, "Time Series (Daily)", "4. close">>,
     <<CryptoType, "Time Series (Digital Currency Daily)", "4a. close (USD)">>,
     <<ForexType, "Time Series FX (Daily)", "4. close">>,
     <<CryptoType, "Time Series (Digital Currency Daily)", "4. close">>}

PredictPriceCalls ==
    {AvCall(e, k, t, FullOverview) :
        e \in Events, k \in ApiKeys,
        t \in AvFailures \cup {AvSeries("Time Series (Daily)", "4. close",
                                        AvDays("flat", 1))}}
    \cup {AvCall(EventOf(<<"e", "u", "r", "u", "s", "d">>, key[1]), Str(<<"k", "e", "y">>),
                 AvSeries(key[2], key[3], d), f) :
             key \in AvSeriesKeys, d \in AvShortDays, f \in Fundamentals}
    \cup {AvCall(EventOf(<<"a", "a", "p", "l">>, StockType), Str(<<"k", "e", "y">>),
                 AvSeries("Time Series (Daily)", "4. close", AvDays(shape, n)),
                 FullOverview) :
             shape \in Shapes, n \in SeriesLengths}

\* the second Yahoo stamps the t-th oldest sample with
StampOf(t) == (FirstDay + t - 1) * 86400 + 52200

\* the arrays of a Yahoo payload in the order the payload lists the samples:
\* sample j of the payload is the At(j)-th oldest
YahooMeta == [symbol |-> Text("TCS.NS"), currency |-> Text("INR")]

YahooResult(timestamps, closes, meta) ==
    [timestamp  |-> Arr(timestamps),
     indicators |-> [quote |-> Arr(<<[close |-> Arr(closes)]>>)],
     meta       |-> meta]

YahooAnswer(result0) ==
    [kind |-> "json", ok |-> TRUE, data |-> [chart |-> [result |-> Arr(<<result0>>)]]]

Orders == {"oldestFirst", "newestFirst"}

\* the t of the j-th sample of a payload of n samples
At(order, n, j) == IF order = "oldestFirst" THEN j ELSE n + 1 - j

\* a series of n samples; with gaps, every fifth close is null
YahooSeries(shape, n, order, gaps) ==
    YahooAnswer(YahooResult(
        SubSeq([j \in 1..n |-> StampOf(At(order, n, j))], 1, n),
        SubSeq([j \in 1..n |-> IF gaps /\ At(order, n, j) % 5 = 0 THEN Null
                               ELSE Cents(ShapeCents(shape, At(order, n, j)))], 1, n),
        YahooMeta))

YahooCloses == {Null, Cents(150), Cents(275)}
YahooShort ==
    UNION {{YahooAnswer(YahooResult(
                SubSeq([j \in 1..n |-> StampOf(At(order, n, j))], 1, n), c, YahooMeta)) :
               c \in [1..n -> YahooCloses], order \in Orders} : n \in 0..3}

OneSample == YahooResult(<<StampOf(1)>>, <<Cents(150)>>, YahooMeta)

YahooFailures ==
    {[kind |-> "network_error"], [kind |-> "not_json"],
     [kind |-> "json", ok |-> FALSE, data |-> Null],
     [YahooAnswer(OneSample) EXCEPT !.ok = FALSE],
     [kind |-> "json", ok |-> TRUE, data |-> Null],
     [kind |-> "json", ok |-> TRUE, data |-> [chart |-> Undefined]],
     [kind |-> "json", ok |-> TRUE, data |-> [chart |-> [result |-> Null]]],
     [kind |-> "json", ok |-> TRUE, data |-> [chart |-> [result |-> Arr(<<>>)]]],
     YahooAnswer(Null),
     YahooAnswer([OneSample EXCEPT !.timestamp = Undefined]),
     YahooAnswer([OneSample EXCEPT !.indicators = Undefined]),
     YahooAnswer([OneSample EXCEPT !.indicators = [quote |-> Arr(<<>>)]]),
     YahooAnswer([OneSample EXCEPT !.indicators = [quote |-> Arr(<<[close |-> Undefined]>>)]]),
     YahooAnswer([OneSample EXCEPT !.meta = Undefined]),
     YahooAnswer([OneSample EXCEPT !.meta = [symbol |-> Undefined,
                                             currency |-> Undefined]])}

YahooCall(event, upstream) ==
    [handler |-> "part_002", event |-> event, upstream |-> upstream]

YahooCalls ==
    {YahooCall(e, u) : e \in Events, u \in YahooFailures \cup {YahooAnswer(OneSample)}}
    \cup {YahooCall(EventOf(<<"t", "c", "s">>, StockType), u) : u \in YahooShort}
    \cup {YahooCall(EventOf(<<"t", "c", "s">>, StockType),
                    YahooSeries(shape, n, order, FALSE)) :
             shape \in Shapes, n \in SeriesLengths, order \in Orders}
    \cup {YahooCall(EventOf(<<"t", "c", "s">>, StockType),
                    YahooSeries("zigzag", n, order, TRUE)) :
             n \in SeriesLengths, order \in Orders}

HandlerInit ==
    /\ pc = "idle"
    /\ fn = "none"
    /\ prices = <<>>
    /\ period = 1
    /\ i = 0
    /\ avg = <<Zero, Zero>>
    /\ result = Undefined
    /\ call = NoCall
    /\ response = NoResponse
    /\ requests = <<>>
    /\ locals = NoLocals
    /\ NoFirebase

\* the invocation c handled, with the outcome out
Handle(c, out) ==
    /\ pc' = "done"
    /\ fn' = c.handler
    /\ call' = c
    /\ response' = out.response
    /\ requests' = out.requests
    /\ locals' = out.locals
    /\ UNCHANGED <<firebaseVars, prices, period, i, avg, result>>

PredictPrice ==
    /\ pc = "idle"
    /\ \E c \in PredictPriceCalls :
          Handle(c, predictPriceHandler(c.event, c.apiKey, c.tech, c.fundamental))

YahooAnalysis ==
    /\ pc = "idle"
    /\ \E c \in YahooCalls : Handle(c, yahooAnalysisHandler(c.event, c.upstream))

HandlerNext ==
    \/ PredictPrice
    \/ YahooAnalysis

HandlerSpec == HandlerInit /\ [][HandlerNext]_vars

----------------------------------------------------------------------------
(* The indicator functions called on series as long as the handlers read:   *)
(* a series is drawn at the start, one function is applied to it.  With     *)
(* what the function returns go the constants it computed on the way.       *)

FlatLength       == 30     \* the length of the flat series of the scenario
IndicatorShapes  == Shapes \cup {"peak", "trough"}
IndicatorLengths ==
    {0, 1, DefaultRsiPeriod, DefaultRsiPeriod + 1, DefaultBollingerPeriod - 1,
     DefaultBollingerPeriod, MacdSlow - 1, MacdSlow, FlatLength, MaxSamples}

\* the series of n closes of a shape, index 0 holding the first of them
SeriesOf(shape, n) == SubSeq([j \in 1..n |-> Cents(ShapeCents(shape, j))], 1, n)

\* series of period + 1 closes whose RSI is 70 and 30
ThresholdShapes == {"seventy", "thirty"}

IndicatorSeries ==
    {SeriesOf(shape, n) : shape \in IndicatorShapes, n \in IndicatorLengths}
        \cup {SeriesOf(shape, DefaultRsiPeriod + 1) : shape \in ThresholdShapes}

\* a date label for every index of a series of n samples
LabelsOf(n) == SubSeq([j \in 1..n |-> DateLabel(StampOf(j))], 1, n)

IndicatorInit ==
    /\ pc = "idle"
    /\ fn = "none"
    /\ prices \in IndicatorSeries
    /\ period = DefaultRsiPeriod
    /\ i = 0
    /\ avg = <<Zero, Zero>>
    /\ result = Undefined
    /\ call = NoCall
    /\ response = NoResponse
    /\ requests = <<>>
    /\ locals = NoLocals
    /\ NoFirebase

\* the function f applied with the window p: it returned ret, having
\* computed the constants consts (null where it returned before them)
Returned(f, p, consts, ret) ==
    /\ pc' = "done"
    /\ fn' = f
    /\ period' = p
    /\ result' = [consts |-> consts, ret |-> ret]
    /\ UNCHANGED <<firebaseVars, prices, i, avg, call, response, requests, locals>>

\* calculateRSI(closingPrices)
CallRSI ==
    /\ pc = "idle"
    /\ Returned("calculateRSI", DefaultRsiPeriod,
                IF Len(prices) <= DefaultRsiPeriod THEN Null
                ELSE LET averages == rsiAverages(prices, DefaultRsiPeriod)
                     IN  [avgGain |-> averages[1], avgLoss |-> averages[2]],
                calculateRSI(prices, DefaultRsiPeriod))

\* calculateBollingerBands(newestPricesFirst)
CallBollingerBands ==
    /\ pc = "idle"
    /\ Returned("calculateBollingerBands", DefaultBollingerPeriod,
                IF Len(prices) < DefaultBollingerPeriod THEN Null
                ELSE bollingerBands(prices, DefaultBollingerPeriod),
                calculateBollingerBands(prices, DefaultBollingerPeriod))

\* calculateMACD(closingPrices) of predict-price.js
CallMACD ==
    /\ pc = "idle"
    /\ Returned("calculateMACD", MacdSlow,
                IF Len(prices) < MacdSlow THEN Null ELSE macdCurrent(prices),
                calculateMACD(prices))

\* calculateMACD(closingPrices, dates) of part_002
CallMACDHistory ==
    /\ pc = "idle"
    /\ Returned("calculateMACDHistory", MacdSlow,
                IF Len(prices) < MacdSlow THEN Null ELSE macdLines(prices),
                calculateMACDHistory(prices, LabelsOf(Len(prices)),
                                     DefaultHistoryLength))

IndicatorNext ==
    \/ CallRSI
    \/ CallBollingerBands
    \/ CallMACD
    \/ CallMACDHistory

IndicatorSpec == IndicatorInit /\ [][IndicatorNext]_vars

\* no analysis is under way
AnalysisIdle ==
    /\ pc = "idle"
    /\ fn = "none"
    /\ prices = <<>>
    /\ period = 1
    /\ i = 0
    /\ avg = <<Zero, Zero>>
    /\ result = Undefined
    /\ call = NoCall
    /\ response = NoResponse
    /\ requests = <<>>
    /\ locals = NoLocals

----------------------------------------------------------------------------
(* The create-subscription handlers, Firebase Auth and Firestore.  A request *)
(* is a task that runs from one await to the next; the tasks of concurrent   *)
(* requests interleave at the awaits.                                        *)

\* the variants of the handler: create-subscription.js lines 35-106 ("first")
\* and 133-249 ("guarded"), part_000, part_001 and the one of
\* get-yahoofinance-forecast.js lines 189-295 ("forecast")
Handlers == {"first", "guarded", "part_000", "part_001", "forecast"}

\* the variants that answer OPTIONS, test db and auth, and parse the body in
\* a try of its own
HandlesPreflight(handler) == handler \in {"guarded", "part_000"}

\* the variants that create the account of an unknown email
CreatesTrialUser(handler) == handler \in {"guarded", "part_000", "forecast"}

\* the variant with the check for a repeated trial
ChecksRepeatedTrial(handler) == handler = "guarded"

\* a Date as its local calendar day; months are counted from 1 here and from
\* 0 in JavaScript
IsLeapYear(y) == (y % 4 = 0 /\ y % 100 # 0) \/ y % 400 = 0

DaysInMonth(y, m) ==
    IF m = 2 THEN (IF IsLeapYear(y) THEN 29 ELSE 28)
    ELSE IF m \in {4, 6, 9, 11} THEN 30 ELSE 31

\* the day d >= 1 of the month m of the year y, a day past the end of the
\* month running on into the months that follow
RECURSIVE MakeDay(_, _, _)
MakeDay(y, m, d) ==
    IF d <= DaysInMonth(y, m) THEN [year |-> y, month |-> m, day |-> d]
    ELSE IF m = 12 THEN MakeDay(y + 1, 1, d - DaysInMonth(y, m))
    ELSE MakeDay(y, m + 1, d - DaysInMonth(y, m))

\* the same for a month m in 1..24
MakeDate(y, m, d) == IF m > 12 THEN MakeDay(y + 1, m - 12, d) ELSE MakeDay(y, m, d)

\* (a slip: a day past the end of the month stops at the end of the month)
setDate_Clamped(date, d) ==
    [date EXCEPT !.day = IF d <= DaysInMonth(date.year, date.month)
                         THEN d ELSE DaysInMonth(date.year, date.month)]

\* Date.prototype.setDate, setMonth and setFullYear
setDate(date, d)     == MakeDate(date.year, date.month, d)
setMonth(date, m)    == MakeDate(date.year, m, date.day)
setFullYear(date, y) == MakeDate(y, date.month, date.day)

TrialPlan     == Text("trial")
MonthlyPlan   == Text("monthly")
SixMonthsPlan == Text("six-months")
YearlyPlan    == Text("yearly")
Plans == {TrialPlan, MonthlyPlan, SixMonthsPlan, YearlyPlan}

\* the switch on planId of the day-based variants
durationDays(planId) ==
    CASE planId = TrialPlan     -> 14
      [] planId = MonthlyPlan   -> 30
      [] planId = SixMonthsPlan -> 180
      [] planId = YearlyPlan    -> 365

\* endDate, from the day now
endDateOf(handler, planId, now) ==
    IF handler = "first"
    THEN CASE planId = TrialPlan     -> setDate(now, now.day + 14)
           [] planId = MonthlyPlan   -> setMonth(now, now.month + 1)
           [] planId = SixMonthsPlan -> setMonth(now, now.month + 6)
           [] planId = YearlyPlan    -> setFullYear(now, now.year + 1)
    ELSE setDate(now, now.day + durationDays(planId))

\* the fields written to the subscription document that do not come
\* unchanged from the body
subscriptionData(handler, planId, uid, email, now) ==
    [planId |-> planId, userId |-> uid, userEmail |-> email,
     startDate |-> now, endDate |-> endDateOf(handler, planId, now),
     status |-> "active"]

InvalidJson   == [kind |-> "invalid json"]
UserNotFound  == [code |-> "auth/user-not-found"]
OtherError    == [code |-> "other"]
InternalError == ErrorBody("An internal server error occurred.")

\* a request not yet made
NoTask ==
    [pc |-> "idle", event |-> Null, userRecord |-> Null, error |-> Null,
     isNewUser |-> FALSE, subscriptionData |-> Null, calls |-> <<>>,
     response |-> Null]

\* the task t returned
Finished(t, status, body) == [t EXCEPT !.pc = "done", !.response = Respond(status, body)]

\* the task t awaits the call op of Firebase
Awaiting(t, op) == [t EXCEPT !.pc = op, !.calls = Append(@, op)]

\* the handler from its entry to the await of getUserByEmail
Begin(deployment, event) ==
    LET t == [NoTask EXCEPT !.event = event]
        preflight == HandlesPreflight(deployment.handler)
    IN  IF preflight /\ event.httpMethod = "OPTIONS"
        THEN Finished(t, 204, Text(""))
        ELSE IF preflight /\ ~deployment.initialized
        THEN Finished(t, 500, ErrorBody("Server configuration error. Please contact support."))
        ELSE IF event.httpMethod # "POST"
        THEN Finished(t, 405, Text("Method Not Allowed"))
        ELSE IF event.body = InvalidJson
        THEN IF preflight
             THEN Finished(t, 400, ErrorBody("Invalid request format."))
             ELSE Finished(t, 500, InternalError)
        ELSE IF event.body = Null
        THEN Finished(t, 500, InternalError)
        ELSE IF Falsy(event.body.planId) \/ Falsy(event.body.email)
        THEN Finished(t, 400, ErrorBody("Missing required fields: planId and email."))
        ELSE Awaiting(t, "getUserByEmail")

\* the switch on planId, to the await of set
Planned(deployment, t, now) ==
    IF t.event.body.planId \notin Plans
    THEN Finished(t, 400, ErrorBody("Invalid planId provided."))
    ELSE Awaiting([t EXCEPT !.subscriptionData =
                       subscriptionData(deployment.handler, t.event.body.planId,
                                        t.userRecord.uid, t.event.body.email, now)],
                  "set")

\* from the user record to the next await
WithUser(deployment, t, now) ==
    IF /\ ChecksRepeatedTrial(deployment.handler)
       /\ t.event.body.planId = TrialPlan
       /\ ~t.isNewUser
    THEN Awaiting(t, "get")
    ELSE Planned(deployment, t, now)

\* (a slip: an account is created whatever the plan)
createsAccount_AnyPlan(handler, planId) == CreatesTrialUser(handler)

\* the handler creates the account of an unknown email
createsAccount(handler, planId) == CreatesTrialUser(handler) /\ planId = TrialPlan

\* getUserByEmail answered: with the record of the account, with
\* auth/user-not-found, or (failed) with another error
afterGetUserByEmail(deployment, t, accounts, failed, now) ==
    IF failed
    THEN Finished([t EXCEPT !.error = OtherError], 500, InternalError)
    ELSE IF t.event.body.email \in accounts
    THEN WithUser(deployment, [t EXCEPT !.userRecord = [uid |-> t.event.body.email]], now)
    ELSE IF createsAccount(deployment.handler, t.event.body.planId)
    THEN Awaiting([t EXCEPT !.error = UserNotFound], "createUser")
    ELSE Finished([t EXCEPT !.error = UserNotFound], 404,
                  ErrorBody("Account not found."))

\* createUser answered
afterCreateUser(deployment, t, created, now) ==
    IF created
    THEN WithUser(deployment,
                  [t EXCEPT !.userRecord = [uid |-> t.event.body.email],
                            !.isNewUser = ChecksRepeatedTrial(deployment.handler)],
                  now)
    ELSE Finished(t, 500, InternalError)

\* subscriptionRef.get() answered with the document doc (null: none), or failed
afterGet(deployment, t, doc, failed, now) ==
    IF failed THEN Finished(t, 500, InternalError)
    ELSE IF doc # Null
    THEN Finished(t, 403, ErrorBody("A free trial has already been used for this account."))
    ELSE Planned(deployment, t, now)

\* set answered
afterSet(t, failed) ==
    IF failed THEN Finished(t, 500, InternalError)
    ELSE Finished(t, 200, [success |-> TRUE])

MaxRequests == 2
Requests == 1..MaxRequests

\* the account the requests are about, and one no request is about
Ann == Text("ann@example.com")
Bob == Text("bob@example.com")

Dates ==
    {[year |-> 2023, month |-> 12, day |-> 25],
     [year |-> 2024, month |-> 1, day |-> 31],
     [year |-> 2024, month |-> 2, day |-> 29]}

\* a document written earlier
EarlierDocument(email) ==
    subscriptionData("guarded", MonthlyPlan, email, email,
                     [year |-> 2023, month |-> 11, day |-> 30])

PlanIds == Plans \cup {Undefined, Text("gold")}

Bodies ==
    {InvalidJson, Null}
        \cup {[planId |-> p, email |-> e] : p \in PlanIds, e \in {Undefined, Ann}}

SubscriptionEvents ==
    {[httpMethod |-> m, body |-> Null] : m \in {"GET", "OPTIONS"}}
        \cup {[httpMethod |-> "POST", body |-> b] : b \in Bodies}

Deployments ==
    {[handler |-> h, initialized |-> TRUE] : h \in Handlers}
        \cup {[handler |-> h, initialized |-> FALSE] :
                 h \in {g \in Handlers : HandlesPreflight(g)}}

SubscriptionInit ==
    /\ AnalysisIdle
    /\ variant \in Deployments
    /\ auth \in {{Bob}, {Ann, Bob}}
    /\ db \in {[e \in {Ann, Bob} |-> IF e \in documented THEN EarlierDocument(e) ELSE Null] :
                  documented \in {{Bob}, {Ann, Bob}}}
    /\ db[Ann] # Null => Ann \in auth
    /\ clock \in Dates
    /\ tasks = [r \in Requests |-> NoTask]
    /\ moduleScope = NoBindings

\* the request r arrives and runs to its first await
Invoke(r) ==
    /\ tasks[r].pc = "idle"
    /\ r > 1 => tasks[r - 1].pc # "idle"
    /\ \E event \in SubscriptionEvents : tasks' = [tasks EXCEPT ![r] = Begin(variant, event)]
    /\ UNCHANGED <<analysisVars, moduleScope, variant, auth, db, clock>>

GetUserByEmail(r) ==
    /\ tasks[r].pc = "getUserByEmail"
    /\ \E failed \in BOOLEAN :
          tasks' = [tasks EXCEPT
                       ![r] = afterGetUserByEmail(variant, @, auth, failed, clock)]
    /\ UNCHANGED <<analysisVars, moduleScope, variant, auth, db, clock>>

\* createUser fails for an email that has an account by now
CreateUser(r) ==
    /\ tasks[r].pc = "createUser"
    /\ \E failed \in BOOLEAN :
          LET email   == tasks[r].event.body.email
              created == ~failed /\ email \notin auth
          IN  /\ auth' = IF created THEN auth \cup {email} ELSE auth
              /\ tasks' = [tasks EXCEPT ![r] = afterCreateUser(variant, @, created, clock)]
    /\ UNCHANGED <<analysisVars, moduleScope, variant, db, clock>>

GetSubscription(r) ==
    /\ tasks[r].pc = "get"
    /\ \E failed \in BOOLEAN :
          tasks' = [tasks EXCEPT
                       ![r] = afterGet(variant, @, db[tasks[r].userRecord.uid], failed, clock)]
    /\ UNCHANGED <<analysisVars, moduleScope, variant, auth, db, clock>>

\* set(subscriptionData, { merge: true }), and set(subscriptionData) of the
\* first variant: every field of the document kept here is written
SetSubscription(r) ==
    /\ tasks[r].pc = "set"
    /\ \E failed \in BOOLEAN :
          /\ db' = IF failed THEN db
                   ELSE [db EXCEPT ![tasks[r].userRecord.uid] = tasks[r].subscriptionData]
          /\ tasks' = [tasks EXCEPT ![r] = afterSet(@, failed)]
    /\ UNCHANGED <<analysisVars, moduleScope, variant, auth, clock>>

SubscriptionNext ==
    \E r \in Requests :
        \/ Invoke(r)
        \/ GetUserByEmail(r)
        \/ CreateUser(r)
        \/ GetSubscription(r)
        \/ SetSubscription(r)

SubscriptionSpec == SubscriptionInit /\ [][SubscriptionNext]_vars

----------------------------------------------------------------------------
(* Concurrent requests to the analysis handler of part_002: a request runs  *)
(* from one await to the next, and the requests interleave at the awaits.   *)

\* a request not yet made
NoPriceTask ==
    [pc |-> "idle", event |-> Null, upstream |-> Null, bindings |-> NoBindings,
     request |-> Null, arrays |-> Null, returned |-> Null]

Returning(t, r) == [t EXCEPT !.pc = "done", !.returned = r]

\* from the entry to the await of fetch: the task and the module's bindings
priceBegin(scope, event, upstream) ==
    LET qsp == event.queryStringParameters
        t   == [NoPriceTask EXCEPT !.event = event, !.upstream = upstream]
    IN  IF qsp = Null THEN [task |-> Returning(t, Rejected), scope |-> scope]
        ELSE IF Falsy(qsp.ticker) \/ Falsy(qsp.type)
        THEN [task  |-> Returning(t, Respond(400, ErrorBody("Missing ticker or type."))),
              scope |-> scope]
        ELSE [task  |-> [t EXCEPT !.pc = "fetch",
                                  !.bindings = BindFrame(@, "ticker", qsp.ticker),
                                  !.request = [chart |-> yahooTickerOf(qsp.ticker,
                                                             toLowerCase(qsp.type))]],
              scope |-> BindModule(scope, "ticker", qsp.ticker)]

\* fetch settled: response is bound and response.json() is called
priceFetched(scope, t) ==
    IF t.upstream.kind = "network_error"
    THEN [task |-> Returning(t, ServerError), scope |-> scope]
    ELSE [task  |-> [t EXCEPT !.pc = "json",
                              !.bindings = BindFrame(@, "response", t.upstream)],
          scope |-> BindModule(scope, "response", t.upstream)]

\* response.json() settled: data is bound and the handler runs to its return
priceParsed(scope, t) ==
    IF t.upstream.kind # "json"
    THEN [task |-> Returning(t, ServerError), scope |-> scope]
    ELSE LET report == heapReport(Lookup(scope, t.bindings, "ticker"),
                                  Lookup(scope, t.bindings, "response").ok,
                                  t.upstream.data)
         IN  [task  |-> Returning([t EXCEPT !.arrays = report.arrays], report.response),
              scope |-> scope]

ConcurrentEvents ==
    {[queryStringParameters |-> Null],
     [queryStringParameters |-> [ticker |-> Undefined, type |-> StockType]],
     EventOf(<<"t", "c", "s">>, StockType),
     EventOf(<<"e", "u", "r", "u", "s", "d">>, ForexType)}

ConcurrentAnswers ==
    {[kind |-> "network_error"],
     [kind |-> "not_json", ok |-> TRUE, data |-> Null],
     [kind |-> "json", ok |-> TRUE, data |-> Null],
     [YahooAnswer(OneSample) EXCEPT !.ok = FALSE],
     YahooAnswer(OneSample),
     YahooSeries("zigzag", 5, "newestFirst", FALSE),
     YahooSeries("zigzag", 6, "oldestFirst", TRUE)}

ConcurrentInit ==
    /\ AnalysisIdle
    /\ variant = [handler |-> "part_002", initialized |-> TRUE]
    /\ auth = {}
    /\ db = <<>>
    /\ clock = [year |-> 2024, month |-> 1, day |-> 1]
    /\ tasks = [r \in Requests |-> NoPriceTask]
    /\ moduleScope = NoBindings

\* the step of the request r gave the task and the module's bindings
Stepped(r, step) ==
    /\ tasks' = [tasks EXCEPT ![r] = step.task]
    /\ moduleScope' = step.scope
    /\ UNCHANGED <<analysisVars, variant, auth, db, clock>>

PriceRequest(r) ==
    /\ tasks[r].pc = "idle"
    /\ r > 1 => tasks[r - 1].pc # "idle"
    /\ \E event \in ConcurrentEvents, upstream \in ConcurrentAnswers :
          Stepped(r, priceBegin(moduleScope, event, upstream))

PriceFetched(r) ==
    /\ tasks[r].pc = "fetch"
    /\ Stepped(r, priceFetched(moduleScope, tasks[r]))

PriceParsed(r) ==
    /\ tasks[r].pc = "json"
    /\ Stepped(r, priceParsed(moduleScope, tasks[r]))

ConcurrentNext ==
    \E r \in Requests :
        \/ PriceRequest(r)
        \/ PriceFetched(r)
        \/ PriceParsed(r)

ConcurrentSpec == ConcurrentInit /\ [][ConcurrentNext]_vars

----------------------------------------------------------------------------
(* Claims about the indicator functions.                                    *)

Done(f) == pc = "done" /\ fn = f

RsiSignals == {"Oversold", "Neutral", "Overbought", "Extremely Overbought"}

\* an rsi.value within [0, 100]: the number 100, or a two-digit string
RsiValueInRange(v) ==
    IF "cents" \in DOMAIN v
    THEN v.text = "fixed" /\ ~v.neg /\ v.cents >= 0 /\ v.cents <= 10000
    ELSE NLe(Zero, v) /\ NLe(v, Num(100))

\* C4: on non-negative closes, avgGain and avgLoss of calculateRSI are never
\* negative, before and after every smoothing step; the value returned is
\* within [0, 100] (also before it is rounded) and the signal is one of
\* Oversold, Neutral, Overbought, Extremely Overbought.
C4_RsiRange ==
    fn = "calculateRSI" =>
        /\ NLe(Zero, avg[1]) /\ NLe(Zero, avg[2])
        /\ (pc = "done" /\ result # Null) =>
              /\ RsiValueInRange(result.value)
              /\ result.signal \in RsiSignals
              /\ ~NEq(avg[2], Zero) =>
                    /\ FLe(FInt(0), rsiValue(avg[1], avg[2]))
                    /\ FLe(rsiValue(avg[1], avg[2]), FInt(100))

\* calculateRSI has smoothed averages of gains and of losses, none zero
C4_Witness ==
    /\ Done("calculateRSI") /\ result # Null
    /\ period >= 2 /\ Len(prices) >= period + 2
    /\ NGt(avg[1], Zero) /\ NGt(avg[2], Zero)

IsFlat(s) == \A j \in 1..Len(s) : NEq(s[j], s[1])

\* C5: calculateRSI never divides by zero.  When the smoothed avgLoss is
\* exactly zero (all gains, or a flat series) it returns the number 100 with
\* 'Extremely Overbought'; on every other path avgLoss is strictly positive
\* where avgGain / avgLoss is formed, and the result is a finite number.
C5_RsiNoDivisionByZero ==
    (Done("calculateRSI") /\ result # Null) =>
        /\ NEq(avg[2], Zero) =>
              result = [value |-> Num(100), signal |-> "Extremely Overbought"]
        /\ ~NEq(avg[2], Zero) =>
              /\ NGt(avg[2], Zero)
              /\ result.signal # "Extremely Overbought"
              /\ result.value.text = "fixed"
              /\ ~rsiValue(avg[1], avg[2]).inf /\ ~rsiValue(avg[1], avg[2]).nan
        /\ IsFlat(prices) => result.signal = "Extremely Overbought"

\* a series of gains only, smoothed, not flat: avgLoss is zero at the end
C5_Witness ==
    /\ Done("calculateRSI") /\ result # Null
    /\ Len(prices) >= period + 2
    /\ ~IsFlat(prices)
    /\ NEq(avg[2], Zero)
    /\ result.signal = "Extremely Overbought"

\* C7: calculateSMA and calculateSma return null for fewer than window
\* samples; otherwise window times the result is the sum of the first window
\* elements (all of them when the length is window), and the elements from
\* index window on do not change the result.
SmaIsMeanOfFirst(r, s, window) ==
    /\ Len(s) < window => r = Null
    /\ Len(s) >= window =>
          /\ r # Null
          /\ NEq(NMul(r, Num(window)), Sum(SubSeq(s, 1, window)))
          /\ NEq(r, calculateSMA(SubSeq(s, 1, window), window))

C7_SmaWindow ==
    /\ Done("calculateSMA") => SmaIsMeanOfFirst(result, prices, period)
    /\ (Done("calculateSma") /\ ~result.nullArg) =>
            SmaIsMeanOfFirst(result.ret, prices, period)

\* a series longer than the window whose last element is not the mean
C7_Witness ==
    /\ Done("calculateSMA") /\ result # Null
    /\ Len(prices) > period
    /\ ~NEq(prices[Len(prices)], result)

\* the EMA of the samples from index j on (the sample j and all older ones),
\* the multiplier being that of period
EmaOfSuffix(s, period_, j) ==
    LET suffix == SubSeq(s, j, Len(s))
        emas   == emaLoop(suffix, emaK(period_), <<suffix[Len(suffix)]>>, Len(suffix) - 1)
    IN  emas[Len(emas)]

\* C8: calculateEMA returns as many values as it is given samples when there
\* are at least window of them, and the empty sequence otherwise; the value at
\* index j is the EMA of sample j and the older ones (indices j and up), so
\* the output is aligned with the input.
C8_EmaLengthAndAlignment ==
    Done("calculateEMA") =>
        /\ Len(prices) < period => result = <<>>
        /\ Len(prices) >= period =>
              /\ Len(result) = Len(prices)
              /\ \A j \in 1..Len(prices) : NEq(result[j], EmaOfSuffix(prices, period, j))

\* an EMA over at least two samples whose ends differ
C8_Witness ==
    /\ Done("calculateEMA")
    /\ Len(prices) >= period /\ Len(prices) >= 3
    /\ ~NEq(prices[1], prices[Len(prices)])
    /\ Len(result) = Len(prices)

\* C9: with k = 2 / (window + 1), the EMA at the last index (the oldest
\* sample) is that sample's price, and at every other index j
\* ema[j] = price[j] * k + ema[j + 1] * (1 - k); multiplied out,
\* (window + 1) * ema[j] = 2 * price[j] + (window - 1) * ema[j + 1].
C9_EmaRecurrence ==
    (Done("calculateEMA") /\ Len(prices) >= period) =>
        /\ NEq(result[Len(prices)], prices[Len(prices)])
        /\ \A j \in 1..(Len(prices) - 1) :
              NEq(NMul(Num(period + 1), result[j]),
                  NAdd(NMul(Num(2), prices[j]), NMul(Num(period - 1), result[j + 1])))

\* an EMA whose newest value is not the newest price
C9_Witness ==
    /\ Done("calculateEMA")
    /\ Len(prices) >= period /\ Len(prices) >= 2
    /\ ~NEq(result[1], prices[1])
    /\ period >= 2

StrictlyNewerGreater(s) == \A j \in 1..(Len(s) - 1) : NGt(s[j], s[j + 1])

\* C10: on a newest-first series of at least window samples (two or more)
\* in which every sample is strictly greater than the next older one, the
\* newest EMA value is greater than or equal to the one before it.
C10_EmaMonotone ==
    (Done("calculateEMA") /\ Len(prices) >= period /\ Len(prices) >= 2
        /\ StrictlyNewerGreater(prices)) =>
        NLe(result[2], result[1])

\* a strictly rising series of three samples with a window above one
C10_Witness ==
    /\ Done("calculateEMA")
    /\ Len(prices) >= period /\ Len(prices) >= 3 /\ period >= 2
    /\ StrictlyNewerGreater(prices)
    /\ NGt(result[1], result[2])

\* x lies between the least and the greatest element of s
WithinRange(x, s) ==
    /\ \E a \in 1..Len(s) : NLe(s[a], x)
    /\ \E b \in 1..Len(s) : NLe(x, s[b])

\* C29: every value of the sequence calculateEMA returns lies between the
\* minimum and the maximum of the input prices, for every input of at least
\* window samples.
C29_EmaWithinPriceRange ==
    (Done("calculateEMA") /\ Len(prices) >= period) =>
        \A j \in 1..Len(result) : WithinRange(result[j], prices)

\* an EMA value strictly inside the range, equal to no price
C29_Witness ==
    /\ Done("calculateEMA")
    /\ Len(prices) >= period /\ Len(prices) >= 3
    /\ \E j \in 1..Len(result) : \A a \in 1..Len(prices) : ~NEq(result[j], prices[a])

----------------------------------------------------------------------------
(* Claims about the analysis handlers.                                      *)

\* a handler ran as far as its arrays
HasArrays == pc = "done" /\ locals.kind = "arrays"

\* a handler returned its report
Reported == HasArrays /\ response.statusCode = 200

\* the times of the samples s rise: the series is oldest first
OldestFirst(s) == \A j \in 1..(Len(s) - 1) : s[j] < s[j + 1]

\* C1: for every series of two or more samples, index 0 of closingPrices
\* (what calculateRSI and calculateMACD are given) and index 0 of
\* newestPricesFirst (what calculateBollingerBands, calculateSMA and
\* lastClose use) are one and the same sample.
C1_SameNewestSample ==
    (HasArrays /\ Len(locals.closingSamples) >= 2) =>
        locals.closingSamples[1] = locals.newestSamples[1]

\* the closes p, sampled at the times t, rise strictly through time
RisesThroughTime(p, t) ==
    \A a, b \in 1..Len(p) : t[a] < t[b] => NLt(p[a], p[b])

\* C2: for a series of more than 14 closes that rises strictly through
\* time, the rsi of the report, calculateRSI of the oldest-first
\* closingPrices, has the value 100 and the signal 'Extremely Overbought'.
C2_RisingRsiIs100 ==
    (/\ Reported
     /\ Len(locals.closingPrices) > DefaultRsiPeriod
     /\ OldestFirst(locals.closingSamples)
     /\ RisesThroughTime(locals.closingPrices, locals.closingSamples)) =>
        response.body.technicalAnalysis.rsi
            = [value |-> Num(100), signal |-> "Extremely Overbought"]

\* the MACD of the report of part_002
ReportedMacd == response.body.technicalAnalysis.macd

\* the times of the n most recent of the samples s
MostRecent(s, n) ==
    {t \in {s[j] : j \in 1..Len(s)} :
        Cardinality({u \in {s[j] : j \in 1..Len(s)} : u > t}) < n}

\* C3: history.labels and history.data of the MACD result have one length,
\* at most historyLength; the label at i is the date of the sample whose
\* histogram value is the data entry at i (the histogram at index j being
\* that of closingPrices[j]); the pairs are those of the most recent
\* historyLength samples; also when closes of the payload were null.
C3_HistoryPairs ==
    (Reported /\ fn = "part_002" /\ ReportedMacd # Null) =>
        LET labels == ReportedMacd.history.labels
            data   == ReportedMacd.history.data
            m      == Min(DefaultHistoryLength, Len(locals.closingPrices))
        IN  /\ Len(labels) = Len(data)
            /\ Len(data) <= DefaultHistoryLength
            /\ \A j \in 1..Len(data) :
                  /\ j <= Len(labels)
                  /\ labels[j] = DateLabel(locals.closingSamples[m + 1 - j])
            /\ {locals.closingSamples[j] : j \in 1..m}
                  = MostRecent(locals.closingSamples, m)

----------------------------------------------------------------------------
(* Claims about the indicator functions on long series.                     *)

\* the function f returned something other than null
Determined(f) == Done(f) /\ result.ret # Null

\* a - b = c
IsDifference(a, b, c) == NEq(NAdd(c, b), a)

\* C11: in calculateMACD the histogram is the MACD line minus the signal
\* line at every index, for the current values and for every point of the
\* history; the MACD line is EMA(12) minus EMA(26) index by index, the signal
\* line is EMA(9) of the MACD line, and the sequences have the length of the
\* input series.
C11_MacdHistogramIsDifference ==
    /\ Determined("calculateMACDHistory") =>
          LET l == result.consts
              n == Len(prices)
              m == Min(DefaultHistoryLength, n)
              data == result.ret.history.data
          IN  /\ l.ema12 = calculateEMA(prices, MacdFast)
              /\ l.ema26 = calculateEMA(prices, MacdSlow)
              /\ l.signalLine = calculateEMA(l.macdLine, MacdSignal)
              /\ Len(l.macdLine) = n /\ Len(l.signalLine) = n /\ Len(l.histogram) = n
              /\ \A j \in 1..n :
                    /\ IsDifference(l.ema12[j], l.ema26[j], l.macdLine[j])
                    /\ IsDifference(l.macdLine[j], l.signalLine[j], l.histogram[j])
              /\ Len(data) = m
              /\ \A k \in 1..m :
                    IsDifference(l.macdLine[m + 1 - k], l.signalLine[m + 1 - k], data[k])
              /\ result.ret.macd = toFixed2(l.macdLine[1])
              /\ result.ret.signal = toFixed2(l.signalLine[1])
              /\ result.ret.histogram = toFixed2(NSub(l.macdLine[1], l.signalLine[1]))
    /\ Determined("calculateMACD") =>
          LET c == result.consts
          IN  /\ c.ema12 = calculateEMA(prices, MacdFast)
              /\ c.ema26 = calculateEMA(prices, MacdSlow)
              /\ Len(c.ema12) = Len(prices) /\ Len(c.ema26) = Len(prices)
              /\ Len(c.signalEmas) = Len(prices)
              /\ IsDifference(c.ema12[1], c.ema26[1], c.macdLine)
              /\ c.signalEmas =
                    calculateEMA([j \in 1..Len(prices) |-> NSub(c.ema12[j], c.ema26[j])],
                                 MacdSignal)
              /\ c.signalLine = c.signalEmas[1]
              /\ IsDifference(c.macdLine, c.signalLine, c.histogram)
              /\ result.ret.histogram = toFixed2(NSub(c.macdLine, c.signalLine))

\* a MACD with a history over more samples than it shows, none of the
\* shown histogram values zero
C11_Witness ==
    /\ Determined("calculateMACDHistory")
    /\ Len(prices) > DefaultHistoryLength
    /\ \A k \in 1..DefaultHistoryLength : ~NEq(result.ret.history.data[k], Zero)

\* the sum of the squares of the elements of s
SumOfSquares(s) == Sum([j \in 1..Len(s) |-> NMul(s[j], s[j])])

\* the value of a two-decimal string, in hundredths
SignedCents(str) == IF str.neg THEN -str.cents ELSE str.cents

\* C12: the middle band of calculateBollingerBands is calculateSMA(prices,
\* period); upper and lower are middle plus and minus twice the root of the
\* population variance of the first period prices (divisor period), so that
\* upper - lower is four times the standard deviation and (upper - middle)^2
\* is 4 * sum((p - middle)^2) / period; lower <= middle <= upper.
C12_BandsAroundSma ==
    Determined("calculateBollingerBands") =>
        LET b      == result.consts
            window == SubSeq(prices, 1, period)
            sma    == calculateSMA(prices, period)
        IN  /\ NEq(b.middle, sma)
            /\ NEq(NMul(Num(period), b.middle), Sum(window))
            \* period * variance = sum(p^2) - period * middle^2
            /\ NEq(NAdd(NMul(Num(period), b.variance),
                        NMul(Num(period), NMul(sma, sma))),
                   SumOfSquares(window))
            /\ b.upper = TwiceRoot(sma, 1, b.variance)
            /\ b.lower = TwiceRoot(sma, -1, b.variance)
            /\ ~GtSurd(b.middle, b.upper) /\ ~LtSurd(b.middle, b.lower)
            /\ result.ret.middle = toFixed2(sma)
            /\ result.ret.upper = SurdToFixed2(b.upper)
            /\ result.ret.lower = SurdToFixed2(b.lower)
            /\ SignedCents(result.ret.lower) <= SignedCents(result.ret.middle)
            /\ SignedCents(result.ret.middle) <= SignedCents(result.ret.upper)

\* bands of a series longer than the window whose prices differ
C12_Witness ==
    /\ Determined("calculateBollingerBands")
    /\ Len(prices) > period
    /\ NGt(result.consts.variance, Zero)
    /\ SignedCents(result.ret.lower) < SignedCents(result.ret.middle)
    /\ SignedCents(result.ret.middle) < SignedCents(result.ret.upper)

\* price > middle + 2 * sqrt(variance), by the square of price - middle
AboveUpper(price, middle, variance) ==
    LET d == NSub(price, middle)
    IN  NGt(d, Zero) /\ NGt(NMul(d, d), NMul(Num(4), variance))

\* price < middle - 2 * sqrt(variance)
BelowLower(price, middle, variance) ==
    LET d == NSub(middle, price)
    IN  NGt(d, Zero) /\ NGt(NMul(d, d), NMul(Num(4), variance))

\* what C13 says of the signal, the two signals outside the bands being
\* named above and below
BollingerSignalIs(above, below) ==
    Determined("calculateBollingerBands") =>
        LET b      == result.consts
            signal == result.ret.signal
            isAbove == AboveUpper(prices[1], b.middle, b.variance)
            isBelow == BelowLower(prices[1], b.middle, b.variance)
        IN  /\ signal = b.signal
            /\ (signal = above) = isAbove
            /\ (signal = below) = isBelow
            /\ (signal = "In Bands") = (~isAbove /\ ~isBelow)
            /\ ~(isAbove /\ isBelow)
            /\ IsFlat(SubSeq(prices, 1, period)) =>
                  /\ signal = "In Bands"
                  /\ NEq(calculateSMA(prices, period), prices[1])
                  /\ result.ret.upper = toFixed2(prices[1])
                  /\ result.ret.middle = toFixed2(prices[1])
                  /\ result.ret.lower = toFixed2(prices[1])
            /\ (prices = SeriesOf("flat", FlatLength)) =>
                  /\ result.ret = [upper |-> FixedStr(FALSE, 5000),
                                   middle |-> FixedStr(FALSE, 5000),
                                   lower |-> FixedStr(FALSE, 5000),
                                   signal |-> "In Bands"]
                  /\ NEq(calculateSMA(prices, DefaultBollingerPeriod), Num(50))

C13_FlatWitness ==
    /\ Determined("calculateBollingerBands")
    /\ prices = SeriesOf("flat", FlatLength)

\* the current MACD, signal and histogram of the function that returned
CurrentMacd ==
    IF fn = "calculateMACD"
    THEN <<result.consts.macdLine, result.consts.signalLine, result.consts.histogram>>
    ELSE <<result.consts.macdLine[1], result.consts.signalLine[1],
           result.consts.histogram[1]>>

\* C14: the MACD analysis is one of three values: 'Bullish Momentum' when
\* the current MACD is above the signal and the histogram is positive,
\* 'Bearish Momentum' when it is below the signal and the histogram is
\* negative, 'Neutral' otherwise; 'Neutral' is returned only when the current
\* MACD equals the signal line.
C14_MacdAnalysis ==
    (Determined("calculateMACD") \/ Determined("calculateMACDHistory")) =>
        LET macd      == CurrentMacd[1]
            signal    == CurrentMacd[2]
            histogram == CurrentMacd[3]
            analysis  == result.ret.analysis
        IN  /\ analysis \in {"Bullish Momentum", "Bearish Momentum", "Neutral"}
            /\ (analysis = "Bullish Momentum") =
                  (NGt(macd, signal) /\ NGt(histogram, Zero))
            /\ (analysis = "Bearish Momentum") =
                  (NLt(macd, signal) /\ NLt(histogram, Zero))
            /\ (analysis = "Neutral") = NEq(macd, signal)
            /\ NGt(macd, signal) = NGt(histogram, Zero)
            /\ NLt(macd, signal) = NLt(histogram, Zero)

\* a MACD that is not neutral
C14_Witness ==
    /\ Determined("calculateMACDHistory")
    /\ result.ret.analysis = "Bullish Momentum"

\* a neutral MACD
C14_NeutralWitness ==
    /\ Determined("calculateMACD")
    /\ result.ret.analysis = "Neutral"

\* a bearish MACD
C14_BearishWitness ==
    /\ Determined("calculateMACD")
    /\ result.ret.analysis = "Bearish Momentum"

\* C15: the RSI signal is 'Overbought' exactly when the RSI is above 70,
\* 'Oversold' exactly when it is below 30 and 'Neutral' otherwise, 70 and 30
\* themselves being 'Neutral'; 'Extremely Overbought' is returned only where
\* the average loss is zero.  With RSI = 100 * avgGain / (avgGain + avgLoss)
\* and a positive average loss, RSI > 70 is 3 * avgGain > 7 * avgLoss and
\* RSI < 30 is 7 * avgGain < 3 * avgLoss.
C15_RsiSignalThresholds ==
    Determined("calculateRSI") =>
        LET g      == result.consts.avgGain
            l      == result.consts.avgLoss
            signal == result.ret.signal
            above  == NGt(NMul(Num(3), g), NMul(Num(7), l))
            below  == NLt(NMul(Num(7), g), NMul(Num(3), l))
        IN  /\ signal \in RsiSignals
            /\ (signal = "Extremely Overbought") = NEq(l, Zero)
            /\ NGt(l, Zero) =>
                  /\ (signal = "Overbought") = above
                  /\ (signal = "Oversold") = below
                  /\ (signal = "Neutral") = (~above /\ ~below)
                  /\ NEq(NMul(Num(3), g), NMul(Num(7), l)) =>
                        /\ signal = "Neutral"
                        /\ result.ret.value = FixedStr(FALSE, 7000)
                  /\ NEq(NMul(Num(7), g), NMul(Num(3), l)) =>
                        /\ signal = "Neutral"
                        /\ result.ret.value = FixedStr(FALSE, 3000)

\* an RSI of 70
C15_Witness ==
    /\ Determined("calculateRSI")
    /\ NGt(result.consts.avgLoss, Zero)
    /\ NEq(NMul(Num(3), result.consts.avgGain), NMul(Num(7), result.consts.avgLoss))

\* an RSI of 30
C15_ThirtyWitness ==
    /\ Determined("calculateRSI")
    /\ NGt(result.consts.avgGain, Zero)
    /\ NEq(NMul(Num(7), result.consts.avgGain), NMul(Num(3), result.consts.avgLoss))

\* an RSI above 70 and below 100
C15_OverboughtWitness ==
    /\ Determined("calculateRSI")
    /\ result.ret.signal = "Overbought"

\* s is a two-decimal string of a number
IsFixed(s) == s.kind = "string" /\ s.text = "fixed"

\* C16: each indicator returns null exactly below its minimum length and is
\* determined at the boundary: calculateRSI is null for length <= period and
\* determined for period + 1, calculateBollingerBands is null for length <
\* period and determined for period, calculateMACD is null for length < 26
\* and determined for 26, where its EMA(12), EMA(26) and EMA(9) sequences are
\* not empty.  A short series gives null, not an exception.
C16_NullBelowMinimumLength ==
    /\ Done("calculateRSI") =>
          /\ (result.ret = Null) = (Len(prices) <= period)
          /\ result.ret # Null =>
                result.ret.value = Num(100) \/ IsFixed(result.ret.value)
    /\ Done("calculateBollingerBands") =>
          /\ (result.ret = Null) = (Len(prices) < period)
          /\ result.ret # Null =>
                /\ IsFixed(result.ret.upper)
                /\ IsFixed(result.ret.middle)
                /\ IsFixed(result.ret.lower)
    /\ Done("calculateMACD") =>
          /\ (result.ret = Null) = (Len(prices) < 26)
          /\ result.ret # Null =>
                /\ Len(result.consts.ema12) > 0
                /\ Len(result.consts.ema26) > 0
                /\ Len(result.consts.signalEmas) > 0
                /\ IsFixed(result.ret.macd)
                /\ IsFixed(result.ret.signal)
                /\ IsFixed(result.ret.histogram)
    /\ Done("calculateMACDHistory") =>
          /\ (result.ret = Null) = (Len(prices) < 26)
          /\ result.ret # Null =>
                /\ Len(result.consts.ema12) > 0
                /\ Len(result.consts.ema26) > 0
                /\ Len(result.consts.signalLine) > 0
                /\ IsFixed(result.ret.macd)
                /\ IsFixed(result.ret.signal)
                /\ IsFixed(result.ret.histogram)

\* a MACD of exactly 26 prices
C16_Witness ==
    /\ Determined("calculateMACD")
    /\ Len(prices) = 26

\* bands of exactly period prices
C16_BandsWitness ==
    /\ Determined("calculateBollingerBands")
    /\ Len(prices) = period

\* an RSI of exactly period + 1 prices
C16_RsiWitness ==
    /\ Determined("calculateRSI")
    /\ Len(prices) = period + 1

\* null for the empty series
C16_EmptyWitness ==
    /\ Done("calculateMACDHistory")
    /\ Len(prices) = 0
    /\ result.ret = Null

----------------------------------------------------------------------------
(* Claims about the reports of the analysis handlers.                       *)

\* beside the price history, the rest of what upstream sent is as the
\* handler reads it: for a stock of predict-price.js the overview request
\* was answered with JSON, in part_002 the chart result carries its meta
RestAnswered ==
    IF fn = "predict-price"
    THEN toLowerCase(call.event.queryStringParameters.type) = StockType =>
            call.fundamental.kind = "json"
    ELSE ~Falsy(yahooResult(call.upstream.data).meta)

\* the handler built a series of at least one sample
HasSamples == HasArrays /\ Len(locals.closingPrices) >= 1

\* C17: for every payload that yields at least one sample, whatever the
\* length of the series, the analysis handler returns 200 with a report in
\* which every indicator is what its function gives for the series: null or
\* absent below its own minimum length, determined from it on, whatever the
\* other indicators are.  (The rest of the upstream answers is well formed.)
C17_IndicatorsIndependent ==
    (HasSamples /\ RestAnswered) =>
        /\ response.statusCode = 200
        /\ LET ta     == response.body.technicalAnalysis
               closes == locals.closingPrices
               n      == Len(closes)
           IN  /\ (ta.rsi = Null) = (n <= DefaultRsiPeriod)
               /\ (ta.macd = Null) = (n < MacdSlow)
               /\ (ta.bollingerBands = Null) = (n < DefaultBollingerPeriod)
               /\ ("sma50" \in DOMAIN ta) = (n >= 50)
               /\ ta.rsi = calculateRSI(closes, DefaultRsiPeriod)
               /\ ta.bollingerBands =
                     calculateBollingerBands(Reverse(closes), DefaultBollingerPeriod)
               /\ IF fn = "predict-price"
                  THEN /\ ("sma20" \in DOMAIN ta) = (n >= 20)
                       /\ ta.macd = calculateMACD(closes)
                  ELSE /\ ("ema5" \in DOMAIN ta) = (n >= 5)
                       /\ ("ema9" \in DOMAIN ta) = (n >= 9)
                       /\ ta.macd # Null =>
                             ta.macd.macd =
                               calculateMACDHistory(closes, locals.dates,
                                                    DefaultHistoryLength).macd

\* a report of predict-price.js with an RSI and without MACD and bands
C17_Witness ==
    /\ Reported /\ fn = "predict-price"
    /\ response.body.technicalAnalysis.rsi # Null
    /\ response.body.technicalAnalysis.macd = Null
    /\ response.body.technicalAnalysis.bollingerBands = Null

\* a report of part_002 with RSI and bands and without MACD
C17_BandsWitness ==
    /\ Reported /\ fn = "part_002"
    /\ response.body.technicalAnalysis.rsi # Null
    /\ response.body.technicalAnalysis.bollingerBands # Null
    /\ response.body.technicalAnalysis.macd = Null

\* a report on a single sample
C17_OneSampleWitness ==
    /\ Reported
    /\ Len(locals.closingPrices) = 1

\* the closes of the payload that parse to a number, missing and
\* unparseable ones left out
ParseableCloses ==
    IF fn = "predict-price"
    THEN SelectSeq(avClosingPrices(call.tech,
                       techRequest(toLowerCase(call.event.queryStringParameters.type),
                                   call.event.queryStringParameters.ticker).priceKey),
                   LAMBDA p : ~p.nan)
    ELSE locals.closingPrices

\* C18: a date whose close is missing or does not parse to a finite number
\* is dropped when the series is built and the remaining samples are used: no
\* such value enters the series the indicators are computed on, nor
\* lastClose, and the rest of the series is still reported.
C18_UnparseableCloseDropped ==
    HasArrays =>
        /\ locals.closingPrices = ParseableCloses
        /\ \A j \in 1..Len(locals.closingPrices) : ~locals.closingPrices[j].nan
        /\ Reported => response.body.lastClose # NaNStr
        /\ (ParseableCloses # <<>> /\ RestAnswered) =>
              /\ Reported
              /\ response.body.lastClose = toFixed2(ParseableCloses[Len(ParseableCloses)])

C19_AllNullWitness ==
    /\ HasArrays /\ fn = "part_002"
    /\ Len(locals.dates) = 3
    /\ locals.closingPrices = <<>>
    /\ response.statusCode = 500

\* the handler was invoked for a forex ticker (with its key, where it needs
\* one)
ForexCall ==
    /\ pc = "done" /\ fn \in {"predict-price", "part_002"}
    /\ call.event.queryStringParameters # Null
    /\ ~Falsy(call.event.queryStringParameters.ticker)
    /\ ~Falsy(call.event.queryStringParameters.type)
    /\ toLowerCase(call.event.queryStringParameters.type) = ForexType
    /\ fn = "predict-price" => ~Falsy(call.apiKey)

\* C20: every handler that accepts forex splits a ticker of 6 characters
\* into base (the first three) and quote (the last three) and reports the
\* upper-cased quote as the currency; a forex ticker whose length is not 6
\* is rejected with a client error before any upstream request is made.
C20_ForexSixCharacters ==
    ForexCall =>
        LET ticker == call.event.queryStringParameters.ticker
        IN  IF Len(ticker.chars) = 6
            THEN /\ fn = "predict-price" =>
                       /\ requests[1].from_symbol = substring(ticker, 0, 3)
                       /\ requests[1].to_symbol = substring(ticker, 3, 6)
                 /\ Reported =>
                       response.body.currency = toUpperCase(substring(ticker, 3, 6))
            ELSE /\ requests = <<>>
                 /\ response.statusCode \in 400..499

\* C30: in calculateMACD, EMA(12), EMA(26) and the signal EMA all start from
\* the last array element, so the MACD line, the signal line and the
\* histogram are exactly 0 at the last index for every series of at least 26
\* samples; the history of a series of at most historyLength samples holds
\* this zero point.
C30_MacdZeroAtLastIndex ==
    Determined("calculateMACDHistory") =>
        LET l == result.consts
            n == Len(prices)
        IN  /\ NEq(l.ema12[n], prices[n])
            /\ NEq(l.ema26[n], prices[n])
            /\ NEq(l.macdLine[n], Zero)
            /\ NEq(l.signalLine[n], Zero)
            /\ NEq(l.histogram[n], Zero)
            /\ n <= DefaultHistoryLength =>
                  /\ Len(result.ret.history.data) = n
                  /\ NEq(result.ret.history.data[1], Zero)

\* a MACD whose history holds the zero point beside values that are not zero
C30_Witness ==
    /\ Determined("calculateMACDHistory")
    /\ Len(prices) <= DefaultHistoryLength
    /\ NEq(result.ret.history.data[1], Zero)
    /\ ~NEq(result.ret.history.data[Len(prices)], Zero)

\* the handler was invoked with a ticker and a type (and with its key, where
\* it needs one)
ParametersGiven ==
    /\ pc = "done" /\ fn \in {"predict-price", "part_002"}
    /\ call.event.queryStringParameters # Null
    /\ ~Falsy(call.event.queryStringParameters.ticker)
    /\ ~Falsy(call.event.queryStringParameters.type)
    /\ fn = "predict-price" => ~Falsy(call.apiKey)

\* C21: every price handler rejects an asset class other than stock, crypto
\* or forex (compared without regard to case) with a client error and makes
\* no upstream request for it.
C21_UnknownAssetClassRejected ==
    (/\ ParametersGiven
     /\ toLowerCase(call.event.queryStringParameters.type)
            \notin {StockType, CryptoType, ForexType}) =>
        /\ requests = <<>>
        /\ response.statusCode \in 400..499

\* the characters of the symbol the Yahoo analysis handler asked for
AskedSymbol == requests[1].chart.chars

\* the characters of the ticker of the event, upper-cased
UpperTicker == toUpperCase(call.event.queryStringParameters.ticker).chars

\* C22: the Yahoo analysis handler upper-cases the ticker and asks for: a
\* stock ticker containing '.' unchanged; for a stock ticker without '.',
\* ^NSEI for NIFTY_50 and 'NIFTY 50', ^NSEBANK for NIFTY_BANK, ^BSESN for
\* SENSEX, and the ticker with '.NS' appended otherwise (RELIANCE.NS for
\* RELIANCE); a crypto ticker with '-USD' appended.
C22_YahooSymbol ==
    (ParametersGiven /\ fn = "part_002") =>
        LET type == toLowerCase(call.event.queryStringParameters.type)
        IN  /\ Len(requests) = 1
            /\ type = StockType =>
                  IF \E j \in 1..Len(UpperTicker) : UpperTicker[j] = "."
                  THEN AskedSymbol = UpperTicker
                  ELSE IF UpperTicker \in {<<"N", "I", "F", "T", "Y", "_", "5", "0">>,
                                           <<"N", "I", "F", "T", "Y", " ", "5", "0">>}
                  THEN AskedSymbol = <<"^", "N", "S", "E", "I">>
                  ELSE IF UpperTicker = <<"N", "I", "F", "T", "Y", "_", "B", "A", "N", "K">>
                  THEN AskedSymbol = <<"^", "N", "S", "E", "B", "A", "N", "K">>
                  ELSE IF UpperTicker = <<"S", "E", "N", "S", "E", "X">>
                  THEN AskedSymbol = <<"^", "B", "S", "E", "S", "N">>
                  ELSE AskedSymbol = UpperTicker \o <<".", "N", "S">>
            /\ type = CryptoType => AskedSymbol = UpperTicker \o <<"-", "U", "S", "D">>
            /\ (/\ type = StockType
                /\ UpperTicker = <<"R", "E", "L", "I", "A", "N", "C", "E">>) =>
                  AskedSymbol = <<"R", "E", "L", "I", "A", "N", "C", "E", ".", "N", "S">>

\* an index alias typed in lower case was asked for as ^NSEI
C22_Witness ==
    /\ ParametersGiven /\ fn = "part_002"
    /\ call.event.queryStringParameters.ticker.chars =
          <<"n", "i", "f", "t", "y", "_", "5", "0">>
    /\ AskedSymbol = <<"^", "N", "S", "E", "I">>

\* Reliance was asked for as RELIANCE.NS
C22_RelianceWitness ==
    /\ ParametersGiven /\ fn = "part_002"
    /\ AskedSymbol = <<"R", "E", "L", "I", "A", "N", "C", "E", ".", "N", "S">>

\* the analysis handler of predict-price.js asked Alpha Vantage for the series
\* and the payload carries a throttling notice
Throttled ==
    /\ ParametersGiven /\ fn = "predict-price"
    /\ Len(requests) >= 1
    /\ call.tech.kind = "json" /\ ~Falsy(call.tech.Note)

\* C23: an Alpha Vantage handler answers a payload carrying a Note with
\* status 429, a status it uses neither for missing data nor for invalid
\* input.
C23_NoteIsRateLimited ==
    Throttled => response.statusCode = 429

\* C24: every invocation of a handler resolves to a response carrying a
\* status code; an event without a query-parameter object is answered with
\* status 500.
C24_AlwaysAStatus ==
    (pc = "done" /\ fn \in {"predict-price", "part_002"}) =>
        /\ "statusCode" \in DOMAIN response
        /\ call.event.queryStringParameters = Null => response.statusCode = 500

----------------------------------------------------------------------------
(* Claims about the create-subscription handlers.                           *)

\* the request r was answered with the status
Answered(r, status) ==
    tasks[r].pc = "done" /\ tasks[r].response.statusCode = status

\* the request r was answered that its trial is active
TrialActivated(r) ==
    Answered(r, 200) /\ tasks[r].event.body.planId = TrialPlan

\* C26: with the check for a repeated trial, at most one of the requests for
\* a trial made for one email is answered 200, however the requests
\* interleave.
C26_TrialAtMostOnce ==
    variant.handler = "guarded" =>
        \A r, s \in DOMAIN tasks :
            (TrialActivated(r) /\ TrialActivated(s)) => r = s

\* the calls of Firebase the request r made
CallsOf(r) == {tasks[r].calls[j] : j \in 1..Len(tasks[r].calls)}

\* C27: in every variant an account is created only by a request for the
\* plan 'trial' whose email had no account; a request for any other plan
\* whose email is unknown is answered 404 after the lookup, and calls
\* neither createUser nor set.
C27_AccountsOnlyForTrials ==
    /\ [](\A r \in DOMAIN tasks :
             /\ "createUser" \in CallsOf(r) =>
                   /\ tasks[r].event.body.planId = TrialPlan
                   /\ tasks[r].error = UserNotFound
             /\ (/\ tasks[r].error = UserNotFound
                 /\ tasks[r].event.body.planId # TrialPlan) =>
                   /\ Answered(r, 404)
                   /\ tasks[r].calls = <<"getUserByEmail">>)
    /\ [][auth' # auth =>
             \E r \in DOMAIN tasks :
                 /\ tasks[r].pc = "createUser"
                 /\ tasks[r].event.body.planId = TrialPlan
                 /\ tasks[r].event.body.email \notin auth
                 /\ auth' = auth \cup {tasks[r].event.body.email}]_vars

\* a paid or unrecognised plan for an unknown email was answered 404 by a
\* variant that creates accounts, while a trial created the account
C27_Witness ==
    /\ CreatesTrialUser(variant.handler)
    /\ \E r, s \in DOMAIN tasks :
          /\ Answered(r, 404)
          /\ tasks[r].error = UserNotFound
          /\ tasks[r].event.body.planId = Text("gold")
          /\ Answered(s, 200)
          /\ "createUser" \in CallsOf(s)
          /\ Ann \in auth

\* the days from the first of January 2023 to the first of the month m of
\* the year y
RECURSIVE DaysBefore(_, _)
DaysBefore(y, m) ==
    IF y <= 2023 /\ m = 1 THEN 0
    ELSE IF m = 1 THEN DaysBefore(y - 1, 12) + DaysInMonth(y - 1, 12)
    ELSE DaysBefore(y, m - 1) + DaysInMonth(y, m - 1)

DayNumber(date) == DaysBefore(date.year, date.month) + date.day

\* the step is the write of the request r: it is answered 200, and only the
\* document of its account changes, to an active subscription to its plan
\* that starts today and ends 14, 30, 180 or 365 days later
Wrote(r) ==
    LET t   == tasks[r]
        doc == db'[t.userRecord.uid]
    IN  /\ t.pc = "set"
        /\ tasks'[r].pc = "done" /\ tasks'[r].response.statusCode = 200
        /\ db' = [db EXCEPT ![t.userRecord.uid] = doc]
        /\ doc.status = "active"
        /\ doc.planId = t.event.body.planId
        /\ doc.userId = t.userRecord.uid
        /\ doc.startDate = clock
        /\ DayNumber(doc.endDate) - DayNumber(doc.startDate) =
              (CASE doc.planId = TrialPlan     -> 14
                 [] doc.planId = MonthlyPlan   -> 30
                 [] doc.planId = SixMonthsPlan -> 180
                 [] doc.planId = YearlyPlan    -> 365)

\* C28: in the day-based variants a subscription document changes only in
\* the step in which a request is answered 200; a request answered anything
\* else changes no document, and the document written is keyed by the uid of
\* the account, active, for the plan asked, and ends 14, 30, 180 or 365 days
\* after it starts.
C28_WrittenOnlyWithSuccess ==
    [][variant.handler # "first" =>
          /\ db' # db => \E r \in DOMAIN tasks : Wrote(r)
          /\ \A r \in DOMAIN tasks :
                (tasks[r].pc # "done" /\ tasks'[r].pc = "done") =>
                    IF tasks'[r].response.statusCode = 200
                    THEN Wrote(r)
                    ELSE db' = db]_vars

\* a month bought on the 31st of January of a leap year ends on the 1st of
\* March, while another request was answered 403
C28_Witness ==
    /\ variant.handler = "guarded"
    /\ clock = [year |-> 2024, month |-> 1, day |-> 31]
    /\ \E r, s \in DOMAIN tasks :
          /\ Answered(r, 200)
          /\ tasks[r].event.body.planId = MonthlyPlan
          /\ db[Ann].planId = MonthlyPlan
          /\ db[Ann].endDate = [year |-> 2024, month |-> 3, day |-> 1]
          /\ Answered(s, 403)

\* a year bought on the 29th of February ends on the 28th of February
C28_YearWitness ==
    /\ variant.handler \in {"part_000", "part_001", "forecast"}
    /\ \E r \in DOMAIN tasks :
          /\ Answered(r, 200)
          /\ db[Ann] # Null
          /\ db[Ann].startDate = [year |-> 2024, month |-> 2, day |-> 29]
          /\ db[Ann].endDate = [year |-> 2025, month |-> 2, day |-> 28]

----------------------------------------------------------------------------
(* Claims about concurrent requests to the analysis handler.                *)

\* the closes of the payload of the request r
PayloadCloses(r) ==
    yahooResult(tasks[r].upstream.data).indicators.quote.items[1].close.items

\* C25: under every interleaving of concurrent requests to the analysis
\* handler of part_002, the module keeps no binding a request assigned,
\* what a request returns is what the handler returns for its own event and
\* its own payload handled alone, and the arrays closingPrices and
\* newestPricesFirst are, after the indicator functions were applied to them,
\* as they were built.
C25_ReportOfOwnRequest ==
    /\ moduleScope = NoBindings
    /\ \A r \in DOMAIN tasks :
          tasks[r].pc = "done" =>
              /\ tasks[r].returned =
                    yahooAnalysisHandler(tasks[r].event, tasks[r].upstream).response
              /\ tasks[r].arrays # Null =>
                    /\ tasks[r].arrays.closingPrices =
                          yahooClosingPrices(PayloadCloses(r))
                    /\ tasks[r].arrays.newestPricesFirst =
                          Reverse(yahooClosingPrices(PayloadCloses(r)))

\* two requests were under way together: one reported the EMA of five
\* closes, the other was answered that there is no data
C25_Witness ==
    \E r, s \in DOMAIN tasks :
        /\ tasks[r].pc = "done" /\ tasks[s].pc = "done"
        /\ tasks[r].arrays # Null
        /\ tasks[r].arrays.emas # <<>>
        /\ tasks[r].returned.statusCode = 200
        /\ "ema5" \in DOMAIN tasks[r].returned.body.technicalAnalysis
        /\ tasks[s].request # Null
        /\ tasks[s].event # tasks[r].event
        /\ tasks[s].returned = NotFound(tasks[s].event.queryStringParameters.ticker)

====
